---- MODULE Spec2Model ----
(***************************************************************************)
(* Token lifecycle of the go-bdfs client (src/pan/utils.go): the stored    *)
(* token record, Authorize with its three paths (stored record, refresh,   *)
(* device-code authorization), the PollForToken goroutine racing the       *)
(* caller's context, and the token file as written by SaveTokens.          *)
(*                                                                         *)
(* Time is counted in whole seconds.  The zero time.Time is 0; every other *)
(* instant is a positive number.  A request takes no model time, so the    *)
(* poll loop issues as many requests as the code allows at most.           *)
(*                                                                         *)
(* UploadFile (src/pan/move.go) with CalculateSliceMD5: the precreate      *)
(* request, the slice loop and the create request, each request and its    *)
(* answer a step of its own (specification SpecUpload).                    *)
(***************************************************************************)
EXTENDS Integers, Sequences, FiniteSets, TLC

----------------------------------------------------------------------------
(* Bounds of the model *)

\* the clock when the process starts, in seconds after the zero time
Now0 == 10000000

\* age of a stored record at process start
StoredAge == 100

----------------------------------------------------------------------------
(* Program constants *)

\* GetDeviceCodeForPoll: Interval 5
DefaultInterval == 5

\* GetDeviceCodeForPoll: ExpiresIn 1800
DefaultExpiresIn == 1800

\* IsTokenExpired: time.Now().Add(48 * time.Hour), in seconds
TwoDays == 48 * 3600

----------------------------------------------------------------------------
(* Input values *)

\* a usual token lifetime granted by the service (30 days)
Month == 30 * 24 * 3600

\* a lifetime shorter than the 48 hour look-ahead
Hour == 3600

\* created_at values found in a token file: missing (zero time), in the
\* past, and ahead of the clock by more than the look-ahead
StoredCreatedAt == {0, Now0 - StoredAge, Now0 + TwoDays + StoredAge}

\* expires_in values found in a token file; with created_at = Now0 - StoredAge
\* the expiry instant lies before now, less than 48h after now, exactly 48h
\* after now, more than 48h after now
StoredExpiresIn ==
    {0, StoredAge - 1, StoredAge + TwoDays - 1, StoredAge + TwoDays,
     StoredAge + TwoDays + 1, Month}

\* expires_in values in a token response of the service (0: field absent)
ServerExpiresIn == {0, Hour, Month}

----------------------------------------------------------------------------
(* The token file *)

\* type TokenFile, as the content of the file at c.tokenFile
NoFile == [kind |-> "none"]

\* a file that exists and is not the JSON of a TokenFile (also a file cut
\* short by a failed write)
CorruptFile == [kind |-> "corrupt"]

\* json.MarshalIndent(tokenFile): one JSON object, the whole file content
MarshalTokenFile(tf) ==
    [kind |-> "json",
     access_token |-> tf.AccessToken,
     refresh_token |-> tf.RefreshToken,
     expires_in |-> tf.ExpiresIn,
     uid |-> tf.UID,
     created_at |-> tf.CreatedAt]

\* json.Unmarshal(data, &tokenFile) of a file of kind "json"
UnmarshalTokenFile(data) ==
    [AccessToken |-> data.access_token,
     RefreshToken |-> data.refresh_token,
     ExpiresIn |-> data.expires_in,
     UID |-> data.uid,
     CreatedAt |-> data.created_at]

\* a token file holding one record
StoredRecord(a, r, e, t) ==
    MarshalTokenFile([AccessToken |-> a, RefreshToken |-> r, ExpiresIn |-> e,
                      UID |-> "uid_old", CreatedAt |-> t])

\* the token files a process may find when it starts: none, an unreadable
\* one, a valid record (also with an empty access token, also expiring in
\* exactly 48 hours), an expired one (also without refresh token), one
\* expiring soon, one without expires_in, one without created_at
StoredFiles ==
    {NoFile, CorruptFile,
     StoredRecord("at_old", "rt_old", Month, Now0 - StoredAge),
     StoredRecord("", "rt_old", Month, Now0 - StoredAge),
     StoredRecord("at_old", "rt_old", StoredAge + TwoDays, Now0 - StoredAge),
     StoredRecord("at_old", "rt_old", StoredAge - 1, Now0 - StoredAge),
     StoredRecord("at_old", "", StoredAge - 1, Now0 - StoredAge),
     StoredRecord("at_old", "rt_old", StoredAge + TwoDays - 1, Now0 - StoredAge),
     StoredRecord("at_old", "rt_old", 0, Now0 - StoredAge),
     StoredRecord("at_old", "rt_old", Month, 0)}

\* every combination of the fields of a record, for the checks of
\* IsTokenExpired
AllStoredFiles ==
    { StoredRecord(a, r, e, t) :
        a \in {"", "at_old"}, r \in {"", "rt_old"},
        e \in StoredExpiresIn, t \in StoredCreatedAt }

----------------------------------------------------------------------------
(* The client *)

\* type Client, the token fields, after NewClient
NewClient ==
    [accessToken |-> "", refreshToken |-> "", expiresIn |-> 0, uid |-> "",
     tokenCreatedAt |-> 0]

\* type TokenResponse
TokenResponse(a, r, e, u) ==
    [AccessToken |-> a, RefreshToken |-> r, ExpiresIn |-> e, UID |-> u]

\* &TokenResponse{}
EmptyTokenResponse == TokenResponse("", "", 0, "")

\* c.accessToken = t.AccessToken; c.refreshToken = ...; c.expiresIn = ...; c.uid = ...
SetTokens(cl, t) ==
    [cl EXCEPT !.accessToken = t.AccessToken, !.refreshToken = t.RefreshToken,
               !.expiresIn = t.ExpiresIn, !.uid = t.UID]

\* Client.HasValidToken: os.Stat(c.tokenFile) succeeds
HasValidToken(file) == file.kind # "none"

\* IsTokenExpired without the 48 hour look-ahead
IsTokenExpiredNoLookahead(cl, t) ==
    IF cl.tokenCreatedAt = 0 \/ cl.expiresIn = 0
    THEN TRUE
    ELSE cl.tokenCreatedAt + cl.expiresIn < t

\* IsTokenExpired with a look-ahead of 24 hours
IsTokenExpiredOneDay(cl, t) ==
    IF cl.tokenCreatedAt = 0 \/ cl.expiresIn = 0
    THEN TRUE
    ELSE LET expirationTime == cl.tokenCreatedAt + cl.expiresIn
         IN  expirationTime < t \/ expirationTime < t + 24 * 3600

\* IsTokenExpired without the check of expires_in
IsTokenExpiredNoZeroCheck(cl, t) ==
    IF cl.tokenCreatedAt = 0
    THEN TRUE
    ELSE LET expirationTime == cl.tokenCreatedAt + cl.expiresIn
             twoDaysBefore == t + TwoDays
         IN  expirationTime < t \/ expirationTime < twoDaysBefore

\* Client.IsTokenExpired at clock t.  time.Duration(c.expiresIn) * time.Second
\* is exact for the expires_in values of this model; it wraps only above
\* 2^63 nanoseconds (about 292 years), which no input here reaches.
IsTokenExpired(cl, t) ==
    IF cl.tokenCreatedAt = 0 \/ cl.expiresIn = 0
    THEN TRUE
    ELSE LET expirationTime == cl.tokenCreatedAt + cl.expiresIn
             twoDaysBefore == t + TwoDays
         IN  expirationTime < t \/ expirationTime < twoDaysBefore

\* Client.LoadTokens: the error and the client after the call
LoadTokens(cl, file) ==
    IF file.kind # "json"
    THEN [err |-> TRUE, c |-> cl]
    ELSE LET tf == UnmarshalTokenFile(file)
         IN  [err |-> FALSE,
              c |-> [accessToken |-> tf.AccessToken,
                     refreshToken |-> tf.RefreshToken,
                     expiresIn |-> tf.ExpiresIn,
                     uid |-> tf.UID,
                     tokenCreatedAt |-> tf.CreatedAt]]

\* SaveTokens that does not set c.tokenCreatedAt
SaveTokensKeepsCreatedAt(cl, file, t, w) ==
    IF cl.accessToken = ""
    THEN [err |-> TRUE, c |-> cl, file |-> file, wrote |-> FALSE]
    ELSE LET tf == [AccessToken |-> cl.accessToken,
                    RefreshToken |-> cl.refreshToken,
                    ExpiresIn |-> cl.expiresIn,
                    UID |-> cl.uid,
                    CreatedAt |-> t]
         IN  [err |-> w # "ok",
              c |-> cl,
              file |-> CASE w = "ok" -> MarshalTokenFile(tf)
                         [] w = "open_fail" -> file
                         [] OTHER -> CorruptFile,
              wrote |-> TRUE]

\* outcomes of os.WriteFile: written in full, not opened (file as before),
\* failed after truncation (file cut short)
WriteOutcomes == {"ok", "open_fail", "partial"}

\* Client.SaveTokens at clock t with os.WriteFile outcome w: the error, the
\* client and the file after the call, and whether os.WriteFile was called
SaveTokens(cl, file, t, w) ==
    IF cl.accessToken = ""
    THEN [err |-> TRUE, c |-> cl, file |-> file, wrote |-> FALSE]
    ELSE LET tf == [AccessToken |-> cl.accessToken,
                    RefreshToken |-> cl.refreshToken,
                    ExpiresIn |-> cl.expiresIn,
                    UID |-> cl.uid,
                    CreatedAt |-> t]
         IN  [err |-> w # "ok",
              c |-> [cl EXCEPT !.tokenCreatedAt = tf.CreatedAt],
              file |-> CASE w = "ok" -> MarshalTokenFile(tf)
                         [] w = "open_fail" -> file
                         [] OTHER -> CorruptFile,
              wrote |-> TRUE]

\* answers of the token endpoint to a refresh request
RefreshResponses ==
    {[kind |-> "neterr"], [kind |-> "status"], [kind |-> "badjson"]} \cup
    { [kind |-> "ok", token |-> TokenResponse(a, "rt_new", e, "uid_new")] :
        a \in {"", "at_new"}, e \in ServerExpiresIn }

\* Client.RefreshToken at clock t, the endpoint answering resp and
\* os.WriteFile ending as w: the error, the client and the file after the
\* call, whether a request was issued and whether os.WriteFile was called
RefreshToken(cl, file, t, resp, w) ==
    IF cl.refreshToken = ""
    THEN [err |-> TRUE, c |-> cl, file |-> file, req |-> FALSE, wrote |-> FALSE]
    ELSE IF resp.kind # "ok"
    THEN [err |-> TRUE, c |-> cl, file |-> file, req |-> TRUE, wrote |-> FALSE]
    ELSE IF resp.token.AccessToken = ""
    THEN [err |-> TRUE, c |-> cl, file |-> file, req |-> TRUE, wrote |-> FALSE]
    ELSE LET s == SaveTokens(SetTokens(cl, resp.token), file, t, w)
         IN  [err |-> s.err, c |-> s.c, file |-> s.file, req |-> TRUE,
              wrote |-> s.wrote]

\* answers of the device-code endpoint: an error, or a session advertising
\* its expiry and poll interval in seconds
DeviceCodeResponses ==
    {[kind |-> "err"]} \cup
    { [kind |-> "ok", DeviceCode |-> "dc", ExpiresIn |-> e, Interval |-> i] :
        e \in {10, DefaultExpiresIn}, i \in {DefaultInterval} }

\* Client.GetDeviceCodeForPoll
GetDeviceCodeForPoll(deviceCode) ==
    [DeviceCode |-> deviceCode, Interval |-> DefaultInterval,
     ExpiresIn |-> DefaultExpiresIn]

\* answers of the token endpoint to a poll request
PollResponses ==
    {[kind |-> "neterr"], [kind |-> "badjson"],
     [kind |-> "http", status |-> 400, error |-> "authorization_pending"],
     [kind |-> "http", status |-> 400, error |-> "slow_down"],
     [kind |-> "http", status |-> 400, error |-> "expired_token"],
     [kind |-> "http", status |-> 500, error |-> ""]} \cup
    { [kind |-> "http", status |-> 200, error |-> "",
       token |-> TokenResponse(a, "rt_dev", e, "uid_dev")] :
        a \in {"", "at_dev"}, e \in ServerExpiresIn }

\* what the token endpoint answered: the transport error, the error code of
\* a 400 answer, the status of another non-200 answer, or ok
PollAnswer(resp) ==
    IF resp.kind # "http" THEN resp.kind
    ELSE IF resp.status = 200 THEN "ok"
    ELSE IF resp.status = 400 THEN resp.error
    ELSE "status_500"

\* requestToken that takes slow_down for a failure
requestTokenSlowDownFails(resp) ==
    IF resp.kind = "neterr"
    THEN [err |-> TRUE, token |-> EmptyTokenResponse]
    ELSE IF resp.kind = "http" /\ resp.status # 200
    THEN IF resp.status = 400 /\ resp.error = "authorization_pending"
         THEN [err |-> FALSE, token |-> EmptyTokenResponse]
         ELSE [err |-> TRUE, token |-> EmptyTokenResponse]
    ELSE IF resp.kind = "badjson"
    THEN [err |-> TRUE, token |-> EmptyTokenResponse]
    ELSE [err |-> FALSE, token |-> resp.token]

\* Client.requestToken on the answer resp: the error and the token response
requestToken(resp) ==
    IF resp.kind = "neterr"
    THEN [err |-> TRUE, token |-> EmptyTokenResponse]
    ELSE IF resp.kind = "http" /\ resp.status # 200
    THEN IF resp.status = 400
            /\ resp.error \in {"authorization_pending", "slow_down"}
         THEN [err |-> FALSE, token |-> EmptyTokenResponse]
         ELSE [err |-> TRUE, token |-> EmptyTokenResponse]
    ELSE IF resp.kind = "badjson"
    THEN [err |-> TRUE, token |-> EmptyTokenResponse]
    ELSE [err |-> FALSE, token |-> resp.token]

----------------------------------------------------------------------------
(* Upload: the local file, the slice hashes, the answers of the service *)

\* UploadFile: const sliceSize, 4 * 1024 * 1024 bytes in the program, scaled
\* down
SliceSize == 2

\* length of the longest local file, in bytes
MaxFileLen == 5

\* PrecreateResponse.ReturnType 2: the file exists remotely and matches
NoUploadNeeded == 2

\* what is at localFilePath: nothing, a directory, a file that os.Open
\* refuses, or a file of n bytes; byte j of a file is the number j, so that
\* two byte ranges of a file are equal only when they are the same range
LocalFiles ==
    {[kind |-> "missing", bytes |-> <<>>], [kind |-> "dir", bytes |-> <<>>],
     [kind |-> "unreadable", bytes |-> <<1>>]} \cup
    { [kind |-> "file", bytes |-> [j \in 1..n |-> j]] : n \in 0..MaxFileLen }

\* A text (a path, an uploadid) is the sequence of its characters.

\* remote file paths: /d/f, /d/f#1 and the relative f
RemotePaths ==
    {<<"/", "d", "/", "f">>, <<"/", "d", "/", "f", "#", "1">>, <<"f">>}

\* uploadid values in a precreate answer: none, u1, u2
UploadIDs == {<<>>, <<"u", "1">>, <<"u", "2">>}

\* position of the last separator of the path, 0 when it has none
RECURSIVE LastSlash(_, _)
LastSlash(p, k) ==
    IF k = 0 THEN 0
    ELSE IF p[k] = "/" THEN k
    ELSE LastSlash(p, k - 1)

\* filepath.Dir on a path without doubled or trailing separators
FilepathDir(p) ==
    LET k == LastSlash(p, Len(p))
    IN  IF k = 0 THEN <<".">>
        ELSE IF k = 1 THEN <<"/">>
        ELSE SubSeq(p, 1, k - 1)

\* Client.EnsureRemoteDirExists: the error, !strings.HasPrefix(remotePath, "/")
EnsureRemoteDirExists(remotePath) ==
    ~(Len(remotePath) >= 1 /\ remotePath[1] = "/")

\* url.QueryEscape, as url.Values.Encode applies it to a value
RECURSIVE QueryEscape(_)
QueryEscape(text) ==
    IF text = <<>> THEN <<>>
    ELSE (CASE Head(text) = "/" -> <<"%", "2", "F">>
            [] Head(text) = "#" -> <<"%", "2", "3">>
            [] Head(text) = "%" -> <<"%", "2", "5">>
            [] OTHER -> <<Head(text)>>)
         \o QueryEscape(Tail(text))

\* the value the service reads from an escaped query or form value
RECURSIVE QueryUnescape(_)
QueryUnescape(text) ==
    IF text = <<>> THEN <<>>
    ELSE IF Head(text) = "%" /\ Len(text) >= 3
    THEN (CASE SubSeq(text, 2, 3) = <<"2", "F">> -> <<"/">>
            [] SubSeq(text, 2, 3) = <<"2", "3">> -> <<"#">>
            [] SubSeq(text, 2, 3) = <<"2", "5">> -> <<"%">>
            [] OTHER -> SubSeq(text, 1, 3))
         \o QueryUnescape(SubSeq(text, 4, Len(text)))
    ELSE <<Head(text)>> \o QueryUnescape(Tail(text))

\* a form value as the service reads it after url.Values.Encode
FormValue(text) == QueryUnescape(QueryEscape(text))

HasHash(text) == \E k \in 1..Len(text) : text[k] = "#"

\* the text before its first #
RECURSIVE BeforeHash(_)
BeforeHash(text) ==
    IF text = <<>> \/ Head(text) = "#" THEN <<>>
    ELSE <<Head(text)>> \o BeforeHash(Tail(text))

\* the query of the slice upload request as it is sent: fmt.Sprintf puts
\* path, uploadid and partseq into the URL as they are, in this order, and
\* http.NewRequest (url.Parse) takes what follows the first # of the URL
\* for the fragment, which is not sent; partseq -1: not in the query
SliceUploadQuery(remotePath, uploadID, i) ==
    IF HasHash(remotePath)
    THEN [path |-> QueryUnescape(BeforeHash(remotePath)), uploadid |-> <<>>,
          partseq |-> -1]
    ELSE IF HasHash(uploadID)
    THEN [path |-> QueryUnescape(remotePath),
          uploadid |-> QueryUnescape(BeforeHash(uploadID)), partseq |-> -1]
    ELSE [path |-> QueryUnescape(remotePath),
          uploadid |-> QueryUnescape(uploadID), partseq |-> i]

\* fmt.Sprintf("%x", md5 of the bytes), taken as free of collisions
MD5(bytes) == [md5 |-> bytes]

\* what the successive file.Read calls of one CalculateSliceMD5 do: "full"
\* fills the buffer or returns what is left of the file, "short" returns one
\* byte, "err" fails; the calls after the listed ones are full
ReadScripts ==
    {<<>>, <<"short">>, <<"err">>, <<"full", "err">>, <<"full", "short">>}

Min(a, b) == IF a < b THEN a ELSE b

\* CalculateSliceMD5, the loop from offset pos on with md5List so far:
\* n == 0 leaves the loop before the error of the read is looked at, and
\* os.File.Read returns no error together with n > 0
RECURSIVE ReadSlices(_, _, _, _, _)
ReadSlices(bytes, pos, sliceSize, script, md5List) ==
    LET outcome == IF script = <<>> THEN "full" ELSE Head(script)
        rest == IF script = <<>> THEN <<>> ELSE Tail(script)
        left == Len(bytes) - pos
        n == IF outcome = "err" THEN 0
             ELSE IF outcome = "short" THEN Min(1, left)
             ELSE Min(sliceSize, left)
    IN  IF n = 0
        THEN md5List
        ELSE ReadSlices(bytes, pos + n, sliceSize, rest,
                        Append(md5List, MD5(SubSeq(bytes, pos + 1, pos + n))))

\* CalculateSliceMD5 that hashes what a read returned before it looks at n
CalculateSliceMD5HashesEmptyRead(file, sliceSize, script) ==
    IF file.kind # "file"
    THEN [err |-> TRUE, list |-> <<>>]
    ELSE IF file.bytes = <<>>
    THEN [err |-> FALSE, list |-> <<MD5(<<>>)>>]
    ELSE [err |-> FALSE,
          list |-> ReadSlices(file.bytes, 0, sliceSize, script, <<>>)]

\* CalculateSliceMD5 on the local file, its reads going as the script says:
\* the error (of os.Open) and the list of hashes
CalculateSliceMD5(file, sliceSize, script) ==
    IF file.kind # "file"
    THEN [err |-> TRUE, list |-> <<>>]
    ELSE [err |-> FALSE,
          list |-> ReadSlices(file.bytes, 0, sliceSize, script, <<>>)]

\* json.Marshal of a []string: null for the nil slice
JSONMarshal(list) == [null |-> list = <<>>, items |-> list]

\* var precreateResponse PrecreateResponse
NoPrecreateResponse == [Errno |-> 0, UploadID |-> <<>>, ReturnType |-> 0]

\* answers to the precreate request: the transport fails, the body cannot
\* be read, the body is no JSON, or a status with the fields of the body
PrecreateAnswers ==
    {[kind |-> "neterr"], [kind |-> "unreadable"], [kind |-> "badjson"],
     [kind |-> "http", status |-> 500, Errno |-> 0, UploadID |-> <<>>,
      ReturnType |-> 0]} \cup
    { [kind |-> "http", status |-> 200, Errno |-> e, UploadID |-> u,
       ReturnType |-> t] :
        e \in {0, 31}, u \in UploadIDs, t \in {0, 1, NoUploadNeeded} }

\* answers to a slice upload request
SliceAnswers ==
    {[kind |-> "neterr"], [kind |-> "unreadable"],
     [kind |-> "http", status |-> 500, errno |-> 0]} \cup
    { [kind |-> "http", status |-> 200, errno |-> e] : e \in {0, 31} }

\* answers to the create file request
CreateFileAnswers ==
    {[kind |-> "neterr"], [kind |-> "unreadable"], [kind |-> "badjson"],
     [kind |-> "http", status |-> 500, Errno |-> 0]} \cup
    { [kind |-> "http", status |-> 200, Errno |-> e] : e \in {0, 31} }

\* what UploadFile returned: nothing yet, nil, or an error with its message
\* and the part it names (-1: none)
UploadNone == [kind |-> "none", msg |-> "", part |-> -1]

UploadOk == [kind |-> "ok", msg |-> "", part |-> -1]

UploadErr(msg, part) == [kind |-> "err", msg |-> msg, part |-> part]

\* a client holding the tokens of a finished authorization
AuthorizedClient ==
    SetTokens(NewClient, TokenResponse("at_dev", "rt_dev", Month, "uid_dev"))

----------------------------------------------------------------------------
(* RenameFiles, MoveFiles, CopyFiles: the requests and the answers *)

\* items of one request list at most
MaxItems == 2

\* items of the info list of an answer at most
MaxInfo == 3

\* an errno of one item of an answer other than 0
ItemFailed == 12

BatchOps == {"rename", "move", "copy"}

BatchPaths == {"/p1", "/p2"}

RECURSIVE SeqsUpTo(_, _)
\* the sequences over S of n elements at most
SeqsUpTo(S, n) ==
    IF n = 0 THEN {<<>>}
    ELSE LET shorter == SeqsUpTo(S, n - 1)
         IN  shorter \cup
             {Append(q, x) : q \in {r \in shorter : Len(r) = n - 1}, x \in S}

\* the request lists: RenameRequest, MoveRequest and CopyRequest by their
\* Path, no path twice in one list
BatchRequestLists ==
    {l \in SeqsUpTo({[Path |-> p] : p \in BatchPaths}, MaxItems) :
        \A i, j \in 1..Len(l) : l[i] = l[j] => i = j}

\* RenameInfo, MoveInfo and CopyInfo of an answer
BatchInfos ==
    SeqsUpTo({[Path |-> p, Errno |-> e] :
                 p \in {"/p1"}, e \in {0, ItemFailed}}, MaxInfo)

\* answers to the filemanager request: the transport fails, the body
\* cannot be read, the body is no JSON, or a status with the fields of the
\* body
BatchAnswers ==
    {[kind |-> "neterr"], [kind |-> "unreadable"], [kind |-> "badjson"],
     [kind |-> "http", status |-> 500, Errno |-> 0, Info |-> <<>>]} \cup
    {[kind |-> "http", status |-> 200, Errno |-> e, Info |-> info] :
        e \in {0, ItemFailed}, info \in BatchInfos}

BatchNone == [kind |-> "none", msg |-> "", failed |-> <<>>]

BatchOk == [kind |-> "ok", msg |-> "", failed |-> <<>>]

BatchErr(msg, failed) == [kind |-> "err", msg |-> msg, failed |-> failed]

\* the call ended in a run-time panic (index out of range)
BatchPanic == [kind |-> "panic", msg |-> "index out of range", failed |-> <<>>]

RECURSIVE FailedItems(_, _, _, _)
\* the loop over the info list from item i on: for an item with Errno != 0
\* the request of the same index is read and its path appended; reading a
\* request that is not there panics
FailedItems(requests, info, i, failed) ==
    IF i > Len(info) THEN [panic |-> FALSE, failed |-> failed]
    ELSE IF info[i].Errno = 0
         THEN FailedItems(requests, info, i + 1, failed)
         ELSE IF i > Len(requests)
              THEN [panic |-> TRUE, failed |-> failed]
              ELSE FailedItems(requests, info, i + 1,
                               Append(failed, requests[i].Path))

\* the check of the items after a top-level errno of 0, and for CopyFiles
\* the success message for every item of the info list, each naming the
\* request of the same index
CheckItems(op, requests, info) ==
    LET checked == FailedItems(requests, info, 1, <<>>)
    IN  IF checked.panic THEN BatchPanic
        ELSE IF Len(checked.failed) > 0
             THEN BatchErr("failed for some files", checked.failed)
             ELSE IF op = "copy" /\ Len(info) > Len(requests)
                  THEN BatchPanic
                  ELSE BatchOk

----------------------------------------------------------------------------
(* The download and info commands: the two HTTP clients, paths, answers *)

\* http.Client{Timeout: 30 * time.Second} of the field client, in seconds
ClientTimeout == 30

\* http.Client{Timeout: 300 * time.Second} of the field downloadClient
DownloadClientTimeout == 300

\* the deadline a request is under, by the field of Client whose Do sent it
TimeoutOf(field) ==
    IF field = "downloadClient" THEN DownloadClientTimeout ELSE ClientTimeout

\* remote paths of the file to download or to show: /f, /d/f and f
CommandPaths == {<<"/", "f">>, <<"/", "d", "/", "f">>, <<"f">>}

\* dirPath of GetFileInfo: the path up to its last separator, / when that
\* is empty or when the path has no separator
GetFileInfoDir(filePath) ==
    LET k == LastSlash(filePath, Len(filePath))
    IN  IF k <= 1 THEN <<"/">> ELSE SubSeq(filePath, 1, k - 1)

\* what GetFileInfo and GetDetailedFileInfo come to once their request is
\* answered: an error of the request or of the answer, a list without the
\* file, a list with it
FileInfoAnswers == {"err", "notfound", "found"}

\* answers to the download request, and, for status 200, whether the copy
\* of the body to the local file goes through
DownloadAnswers ==
    {[kind |-> "neterr"], [kind |-> "http", status |-> 404],
     [kind |-> "http", status |-> 200]}

CommandNone == [kind |-> "none", msg |-> ""]

CommandOk == [kind |-> "ok", msg |-> ""]

CommandErr(msg) == [kind |-> "err", msg |-> msg]

----------------------------------------------------------------------------
(* Walk: the remote trees *)

\* FileInfo of a file and of a directory
FileEntry(p) == [Path |-> p, IsDir |-> 0]

DirEntry(p) == [Path |-> p, IsDir |-> 1]

\* remote trees, each with the path the walk starts at and what ListFiles
\* returns for each of its directories, in the order of the service:
\* / -> [/a, /b -> [/b/c]]; / -> [/a -> [/a/x], /b -> [/b/c], /d];
\* / -> [/b -> [/b/e -> [/b/e/f], /b/c], /a]
Trees ==
    {[root |-> "/",
      list |-> ("/" :> <<FileEntry("/a"), DirEntry("/b")>>
                @@ "/b" :> <<FileEntry("/b/c")>>)],
     [root |-> "/",
      list |-> ("/" :> <<DirEntry("/a"), DirEntry("/b"), FileEntry("/d")>>
                @@ "/a" :> <<FileEntry("/a/x")>>
                @@ "/b" :> <<FileEntry("/b/c")>>)],
     [root |-> "/",
      list |-> ("/" :> <<DirEntry("/b"), FileEntry("/a")>>
                @@ "/b" :> <<DirEntry("/b/e"), FileEntry("/b/c")>>
                @@ "/b/e" :> <<FileEntry("/b/e/f")>>)]}

\* make(chan error, 1) of Walk
WalkErrChanCap == 1

----------------------------------------------------------------------------
(* State *)

VARIABLES
    now,              \* time.Now(), in seconds
    tokenFile,        \* content of the file at c.tokenFile
    c,                \* the token fields of the Client
    ctxDone,          \* the caller's context deadline has elapsed
    pc,               \* position of Authorize: start, refresh, remove,
                      \* devcode, select, done
    authResult,       \* what Authorize returned: none, ok, cancelled,
                      \* err_devcode, err_poll, err_save
    path,             \* how Authorize got its token: none, stored, refresh,
                      \* device
    deviceResp,       \* the device-code session returned by GetDeviceCode
    ppc,              \* position of the PollForToken goroutine: idle, start,
                      \* check, sleep, send, done
    interval,         \* PollForToken's interval
    timeout,          \* PollForToken's timeout
    pollToken,        \* the token PollForToken returns
    tokenChan,        \* tokenChan of performDeviceCodeAuth (capacity 1)
    errChan,          \* errChan of performDeviceCodeAuth (capacity 1)
    events,           \* what the thread of Authorize did, in order
    loaded,           \* the record LoadTokens read and IsTokenExpired of it
    refreshPre,       \* the token fields when RefreshToken was called
    fileAtDeviceAuth, \* the token file when performDeviceCodeAuth was entered
    pollReqs,         \* poll requests issued
    polledAfterReturn, \* a poll request was issued after Authorize returned
    allPending,       \* every poll answer so far was authorization_pending
    pollStart,        \* the clock when PollForToken fixed its timeout
    lastPoll          \* the answer to the poll request PollForToken is
                      \* acting on, or that ended it: none, neterr, badjson,
                      \* ok, authorization_pending, slow_down, expired_token,
                      \* status_500

\* Walk and the consumer of its two channels
VARIABLES
    tree,             \* the remote tree
    failing,          \* the directories whose listing fails
    consumer,         \* when the consumer receives from the error channel:
                      \* eager (whenever an error is there), late (only
                      \* after the entry channel is closed)
    wpc,              \* position of the goroutine of Walk: idle, start,
                      \* list, senderr, loop, sending, sent, return, close,
                      \* done
    wstack,           \* the calls of WalkRecursive in progress: path, the
                      \* files listed, the index of the range loop
    fileChan,         \* the sends on fileChan that wait for a receiver
    fileChanClosed,   \* close(fileChan) has run
    walkErrChan,      \* the errors buffered in errChan of Walk
    received,         \* the entries the consumer has received, in order
    errorsReceived,   \* the errors the consumer has received, in order
    walkLog           \* what the goroutine did and what was received from
                      \* fileChan, in order

\* RenameFiles, MoveFiles, CopyFiles
VARIABLES
    batchOp,          \* which of the three is called
    batchRequests,    \* the request list of the call
    batchPc,          \* idle, start, wait (for the answer), done
    batchSent,        \* the requests sent
    batchResponse,    \* the answer received
    batchResult       \* what the call returned

\* the download command and the info command
VARIABLES
    cmd,              \* download or info
    cmdPath,          \* the remote path given to the command
    cpc,              \* position of the command
    localPath,        \* the local file of the download: absent, old (a
                      \* file from before), empty, partial, complete
    cmdSent,          \* the requests sent
    stepErrors,       \* the steps of the command that returned an error
    fileInfo,         \* fileInfo of DownloadFileToPath is not nil
    cmdResult,        \* what DownloadFileToPath or GetAndDisplayFileInfo
                      \* returned
    exitCode          \* exit code of the process, -1 while it runs

\* CalculateSliceMD5 called on its own
VARIABLES
    hashRuns          \* the lists that the calls of CalculateSliceMD5 on the
                      \* local file have returned so far, in order

\* UploadFile
VARIABLES
    upc,              \* position of UploadFile: idle, start, precreate,
                      \* slice, slice_wait, create, done
    localFile,        \* what is at localFilePath
    remoteFilePath,   \* the argument remoteFilePath
    fileSize,         \* fileInfo.Size()
    sliceMD5s,        \* the list calculateSliceMD5 returned
    precreateResponse, \* the decoded answer to the precreate request
    partseq,          \* i of the slice loop
    uploadedBytes,    \* uploadedBytes of the slice loop
    requests,         \* the requests UploadFile has passed to c.client.Do
                      \* or c.downloadClient.Do, in order
    responses,        \* the answers to them, in order
    uploadResult      \* what UploadFile returned

authVars ==
    <<now, tokenFile, c, ctxDone, pc, authResult, path, deviceResp, ppc,
      interval, timeout, pollToken, tokenChan, errChan, events, loaded,
      refreshPre, fileAtDeviceAuth, pollReqs, polledAfterReturn, allPending,
      pollStart, lastPoll>>

uploadVars ==
    <<upc, localFile, remoteFilePath, fileSize, sliceMD5s, precreateResponse,
      partseq, uploadedBytes, requests, responses, uploadResult>>

sliceVars == <<hashRuns>>

walkVars ==
    <<tree, failing, consumer, wpc, wstack, fileChan, fileChanClosed,
      walkErrChan, received, errorsReceived, walkLog>>

batchVars ==
    <<batchOp, batchRequests, batchPc, batchSent, batchResponse, batchResult>>

cmdVars ==
    <<cmd, cmdPath, cpc, localPath, cmdSent, stepErrors, fileInfo,
      cmdResult, exitCode>>

\* what the token lifecycle leaves alone
nonAuthVars == <<uploadVars, sliceVars, walkVars, batchVars, cmdVars>>

\* what UploadFile leaves alone
nonUploadVars == <<authVars, sliceVars, walkVars, batchVars, cmdVars>>

\* what CalculateSliceMD5 leaves alone
nonSliceVars == <<authVars, uploadVars, walkVars, batchVars, cmdVars>>

\* what Walk and its consumer leave alone
nonWalkVars == <<authVars, uploadVars, sliceVars, batchVars, cmdVars>>

\* what RenameFiles, MoveFiles and CopyFiles leave alone
nonBatchVars == <<authVars, uploadVars, sliceVars, walkVars, cmdVars>>

\* what the download and info commands leave alone
nonCmdVars == <<authVars, uploadVars, sliceVars, walkVars, batchVars>>

vars ==
    <<now, tokenFile, c, ctxDone, pc, authResult, path, deviceResp, ppc,
      interval, timeout, pollToken, tokenChan, errChan, events, loaded,
      refreshPre, fileAtDeviceAuth, pollReqs, polledAfterReturn, allPending,
      pollStart, lastPoll, upc, localFile, remoteFilePath, fileSize,
      sliceMD5s, precreateResponse, partseq, uploadedBytes, requests,
      responses, uploadResult, hashRuns, tree, failing, consumer, wpc,
      wstack, fileChan, fileChanClosed, walkErrChan, received,
      errorsReceived, walkLog, batchOp, batchRequests, batchPc, batchSent,
      batchResponse, batchResult, cmd, cmdPath, cpc, localPath, cmdSent,
      stepErrors, fileInfo, cmdResult, exitCode>>

pollVars == <<ppc, interval, timeout, pollToken, pollReqs, polledAfterReturn,
              allPending, pollStart, lastPoll>>

NoSession == [kind |-> "none", DeviceCode |-> "", ExpiresIn |-> 0, Interval |-> 0]

NotLoaded == [ok |-> FALSE, c |-> NewClient, expired |-> FALSE, at |-> 0]

\* no upload has been asked for
UploadIdle ==
    /\ upc = "idle"
    /\ localFile = [kind |-> "missing", bytes |-> <<>>]
    /\ remoteFilePath = <<"/", "d", "/", "f">>
    /\ fileSize = 0
    /\ sliceMD5s = <<>>
    /\ precreateResponse = NoPrecreateResponse
    /\ partseq = 0
    /\ uploadedBytes = 0
    /\ requests = <<>>
    /\ responses = <<>>
    /\ uploadResult = UploadNone

\* CalculateSliceMD5 has not been called on its own
SliceIdle == hashRuns = <<>>

\* none of RenameFiles, MoveFiles, CopyFiles has been called
BatchIdle ==
    /\ batchOp = "rename"
    /\ batchRequests = <<>>
    /\ batchPc = "idle"
    /\ batchSent = <<>>
    /\ batchResponse = [kind |-> "none"]
    /\ batchResult = BatchNone

\* neither the download command nor the info command has been started
CmdIdle ==
    /\ cmd = "download"
    /\ cmdPath = <<"/", "f">>
    /\ cpc = "idle"
    /\ localPath = "absent"
    /\ cmdSent = <<>>
    /\ stepErrors = <<>>
    /\ fileInfo = FALSE
    /\ cmdResult = CommandNone
    /\ exitCode = -1

\* Walk has not been called
WalkIdle ==
    /\ tree = [root |-> "/", list |-> ("/" :> <<>>)]
    /\ failing = {}
    /\ consumer = "eager"
    /\ wpc = "idle"
    /\ wstack = <<>>
    /\ fileChan = <<>>
    /\ fileChanClosed = FALSE
    /\ walkErrChan = <<>>
    /\ received = <<>>
    /\ errorsReceived = <<>>
    /\ walkLog = <<>>

\* the process has built its client (main.go: pan.NewClient) and is about to
\* call Authorize
Init ==
    /\ now = Now0
    /\ tokenFile \in StoredFiles
    /\ c = NewClient
    /\ ctxDone = FALSE
    /\ pc = "start"
    /\ authResult = "none"
    /\ path = "none"
    /\ deviceResp = NoSession
    /\ ppc = "idle"
    /\ interval = 0
    /\ timeout = 0
    /\ pollToken = EmptyTokenResponse
    /\ tokenChan = <<>>
    /\ errChan = <<>>
    /\ events = <<>>
    /\ loaded = NotLoaded
    /\ refreshPre = NewClient
    /\ fileAtDeviceAuth = NoFile
    /\ pollReqs = 0
    /\ polledAfterReturn = FALSE
    /\ allPending = TRUE
    /\ pollStart = 0
    /\ lastPoll = "none"
    /\ UploadIdle
    /\ SliceIdle
    /\ WalkIdle
    /\ BatchIdle
    /\ CmdIdle

----------------------------------------------------------------------------
(* Authorize, up to the device-code authorization *)

\* Authorize going to the device-code authorization on an expired record
\* without a refresh
AuthorizeLoadSkipsRefresh ==
    /\ pc = "start"
    /\ IF ~HasValidToken(tokenFile)
       THEN /\ events' = events \o <<"stat">>
            /\ pc' = "devcode"
            /\ UNCHANGED <<c, loaded, authResult, path>>
       ELSE LET l == LoadTokens(c, tokenFile)
            IN  /\ c' = l.c
                /\ IF l.err
                   THEN /\ events' = events \o <<"stat", "read">>
                        /\ pc' = "devcode"
                        /\ UNCHANGED <<loaded, authResult, path>>
                   ELSE IF IsTokenExpired(l.c, now)
                   THEN /\ events' = events \o <<"stat", "read">>
                        /\ loaded' = [ok |-> TRUE, c |-> l.c, expired |-> TRUE,
                                      at |-> now]
                        /\ pc' = "devcode"
                        /\ UNCHANGED <<authResult, path>>
                   ELSE /\ events' = events \o <<"stat", "read", "return">>
                        /\ loaded' = [ok |-> TRUE, c |-> l.c, expired |-> FALSE,
                                      at |-> now]
                        /\ pc' = "done"
                        /\ authResult' = "ok"
                        /\ path' = "stored"
    /\ UNCHANGED <<now, tokenFile, ctxDone, deviceResp, tokenChan, errChan,
                   refreshPre, fileAtDeviceAuth>>
    /\ UNCHANGED pollVars
    /\ UNCHANGED nonAuthVars

\* Authorize that goes to the device-code authorization with an expired
\* record, without the call of RefreshToken
AuthorizeLoadWithoutRefresh ==
    /\ pc = "start"
    /\ IF ~HasValidToken(tokenFile)
       THEN /\ events' = events \o <<"stat">>
            /\ pc' = "devcode"
            /\ UNCHANGED <<c, loaded, authResult, path>>
       ELSE LET l == LoadTokens(c, tokenFile)
            IN  /\ c' = l.c
                /\ IF l.err
                   THEN /\ events' = events \o <<"stat", "read">>
                        /\ pc' = "devcode"
                        /\ UNCHANGED <<loaded, authResult, path>>
                   ELSE IF IsTokenExpired(l.c, now)
                   THEN /\ events' = events \o <<"stat", "read">>
                        /\ loaded' = [ok |-> TRUE, c |-> l.c, expired |-> TRUE,
                                      at |-> now]
                        /\ pc' = "devcode"
                        /\ UNCHANGED <<authResult, path>>
                   ELSE /\ events' = events \o <<"stat", "read", "return">>
                        /\ loaded' = [ok |-> TRUE, c |-> l.c, expired |-> FALSE,
                                      at |-> now]
                        /\ pc' = "done"
                        /\ authResult' = "ok"
                        /\ path' = "stored"
    /\ UNCHANGED <<now, tokenFile, ctxDone, deviceResp, tokenChan, errChan,
                   refreshPre, fileAtDeviceAuth>>
    /\ UNCHANGED pollVars
    /\ UNCHANGED nonAuthVars

\* Authorize: HasValidToken, LoadTokens, IsTokenExpired, and the return with
\* the stored record used as is
AuthorizeLoad ==
    /\ pc = "start"
    /\ IF ~HasValidToken(tokenFile)
       THEN /\ events' = events \o <<"stat">>
            /\ pc' = "devcode"
            /\ UNCHANGED <<c, loaded, authResult, path>>
       ELSE LET l == LoadTokens(c, tokenFile)
            IN  /\ c' = l.c
                /\ IF l.err
                   THEN /\ events' = events \o <<"stat", "read">>
                        /\ pc' = "devcode"
                        /\ UNCHANGED <<loaded, authResult, path>>
                   ELSE IF IsTokenExpired(l.c, now)
                   THEN /\ events' = events \o <<"stat", "read">>
                        /\ loaded' = [ok |-> TRUE, c |-> l.c, expired |-> TRUE,
                                      at |-> now]
                        /\ pc' = "refresh"
                        /\ UNCHANGED <<authResult, path>>
                   ELSE /\ events' = events \o <<"stat", "read", "return">>
                        /\ loaded' = [ok |-> TRUE, c |-> l.c, expired |-> FALSE,
                                      at |-> now]
                        /\ pc' = "done"
                        /\ authResult' = "ok"
                        /\ path' = "stored"
    /\ UNCHANGED <<now, tokenFile, ctxDone, deviceResp, tokenChan, errChan,
                   refreshPre, fileAtDeviceAuth>>
    /\ UNCHANGED pollVars
    /\ UNCHANGED nonAuthVars

\* what RefreshToken adds to the events
RefreshEvents(r) ==
    <<"refresh_call">>
    \o (IF r.req THEN <<"refresh_req">> ELSE <<>>)
    \o (IF r.wrote THEN <<"refresh_write">> ELSE <<>>)
    \o (IF r.err THEN <<"refresh_err">> ELSE <<"refresh_ok">>)

\* Authorize: the call of RefreshToken, and the return when it succeeded
AuthorizeRefresh ==
    /\ pc = "refresh"
    /\ \E resp \in RefreshResponses, w \in WriteOutcomes :
        LET r == RefreshToken(c, tokenFile, now, resp, w)
        IN  /\ refreshPre' = c
            /\ c' = r.c
            /\ tokenFile' = r.file
            /\ IF r.err
               THEN /\ events' = events \o RefreshEvents(r)
                    /\ pc' = "remove"
                    /\ UNCHANGED <<authResult, path>>
               ELSE /\ events' = events \o RefreshEvents(r) \o <<"return">>
                    /\ pc' = "done"
                    /\ authResult' = "ok"
                    /\ path' = "refresh"
    /\ UNCHANGED <<now, ctxDone, deviceResp, tokenChan, errChan, loaded,
                   fileAtDeviceAuth>>
    /\ UNCHANGED pollVars
    /\ UNCHANGED nonAuthVars

\* Authorize after a failed refresh, leaving the token file in place
AuthorizeRemoveKeepsFile ==
    /\ pc = "remove"
    /\ events' = events \o <<"remove">>
    /\ pc' = "devcode"
    /\ UNCHANGED <<now, tokenFile, c, ctxDone, authResult, path, deviceResp,
                   tokenChan, errChan, loaded, refreshPre, fileAtDeviceAuth>>
    /\ UNCHANGED pollVars
    /\ UNCHANGED nonAuthVars

\* Authorize after a failed refresh: os.Remove(c.tokenFile)
AuthorizeRemove ==
    /\ pc = "remove"
    /\ tokenFile' = NoFile
    /\ events' = events \o <<"remove">>
    /\ pc' = "devcode"
    /\ UNCHANGED <<now, c, ctxDone, authResult, path, deviceResp, tokenChan,
                   errChan, loaded, refreshPre, fileAtDeviceAuth>>
    /\ UNCHANGED pollVars
    /\ UNCHANGED nonAuthVars

----------------------------------------------------------------------------
(* performDeviceCodeAuth *)

\* performDeviceCodeAuth: GetDeviceCode, then the start of the goroutine
\* that runs PollForToken
GetDeviceCode ==
    /\ pc = "devcode"
    /\ fileAtDeviceAuth' = tokenFile
    /\ \E resp \in DeviceCodeResponses :
        IF resp.kind = "err"
        THEN /\ events' = events \o <<"devcode_req", "return">>
             /\ pc' = "done"
             /\ authResult' = "err_devcode"
             /\ UNCHANGED <<deviceResp, ppc>>
        ELSE /\ events' = events \o <<"devcode_req">>
             /\ deviceResp' = resp
             /\ ppc' = "start"
             /\ pc' = "select"
             /\ UNCHANGED authResult
    /\ UNCHANGED <<now, tokenFile, c, ctxDone, path, tokenChan, errChan,
                   loaded, refreshPre, interval, timeout, pollToken, pollReqs,
                   polledAfterReturn, allPending, pollStart,
                   lastPoll>>
    /\ UNCHANGED nonAuthVars

\* PollForToken: GetDeviceCodeForPoll, interval and timeout
PollStart ==
    /\ ppc = "start"
    /\ LET initialResp == GetDeviceCodeForPoll(deviceResp.DeviceCode)
       IN  /\ interval' = IF initialResp.Interval = 0 THEN DefaultInterval
                          ELSE initialResp.Interval
           /\ timeout' = now + initialResp.ExpiresIn
    /\ pollStart' = now
    /\ ppc' = "check"
    /\ UNCHANGED <<now, tokenFile, c, ctxDone, pc, authResult, path,
                   deviceResp, pollToken, tokenChan, errChan, events, loaded,
                   refreshPre, fileAtDeviceAuth, pollReqs, polledAfterReturn,
                   allPending, lastPoll>>
    /\ UNCHANGED nonAuthVars

\* PollForToken: the timeout has been reached; the goroutine sends the error
PollExpired ==
    /\ ppc = "check"
    /\ now > timeout
    /\ errChan' = Append(errChan, "device code has expired")
    /\ ppc' = "done"
    /\ UNCHANGED <<now, tokenFile, c, ctxDone, pc, authResult, path,
                   deviceResp, interval, timeout, pollToken, tokenChan, events,
                   loaded, refreshPre, fileAtDeviceAuth, pollReqs,
                   polledAfterReturn, allPending, pollStart,
                   lastPoll>>
    /\ UNCHANGED nonAuthVars

\* PollForToken: one requestToken and what the loop does with its result
PollRequest ==
    /\ ppc = "check"
    /\ ~(now > timeout)
    /\ pollReqs' = pollReqs + 1
    /\ polledAfterReturn' = (polledAfterReturn \/ pc = "done")
    /\ \E resp \in PollResponses :
        LET r == requestToken(resp)
        IN  /\ allPending' = (allPending /\ resp.kind = "http"
                              /\ resp.error = "authorization_pending")
            /\ lastPoll' = PollAnswer(resp)
            /\ IF r.err
               THEN /\ errChan' = Append(errChan, "token request failed")
                    /\ ppc' = "done"
                    /\ UNCHANGED <<c, pollToken>>
               ELSE IF r.token.AccessToken # ""
               THEN /\ c' = SetTokens(c, r.token)
                    /\ pollToken' = r.token
                    /\ ppc' = "send"
                    /\ UNCHANGED errChan
               ELSE /\ ppc' = "sleep"
                    /\ UNCHANGED <<c, pollToken, errChan>>
    /\ UNCHANGED <<now, tokenFile, ctxDone, pc, authResult, path, deviceResp,
                   interval, timeout, tokenChan, events, loaded, refreshPre,
                   fileAtDeviceAuth, pollStart>>
    /\ UNCHANGED nonAuthVars

\* the goroutine saving the token itself before it sends it
PollSendSaves ==
    /\ ppc = "send"
    /\ tokenChan' = Append(tokenChan, pollToken)
    /\ tokenFile' = SaveTokens(c, tokenFile, now, "ok").file
    /\ ppc' = "done"
    /\ UNCHANGED <<now, c, ctxDone, pc, authResult, path,
                   deviceResp, interval, timeout, pollToken, errChan, events,
                   loaded, refreshPre, fileAtDeviceAuth, pollReqs,
                   polledAfterReturn, allPending, pollStart,
                   lastPoll>>
    /\ UNCHANGED nonAuthVars

\* the goroutine: tokenChan <- token
PollSend ==
    /\ ppc = "send"
    /\ tokenChan' = Append(tokenChan, pollToken)
    /\ ppc' = "done"
    /\ UNCHANGED <<now, tokenFile, c, ctxDone, pc, authResult, path,
                   deviceResp, interval, timeout, pollToken, errChan, events,
                   loaded, refreshPre, fileAtDeviceAuth, pollReqs,
                   polledAfterReturn, allPending, pollStart,
                   lastPoll>>
    /\ UNCHANGED nonAuthVars

\* PollForToken: time.Sleep(interval)
PollSleep ==
    /\ ppc = "sleep"
    /\ now' = now + interval
    /\ lastPoll' = "none"
    /\ ppc' = "check"
    /\ UNCHANGED <<tokenFile, c, ctxDone, pc, authResult, path, deviceResp,
                   interval, timeout, pollToken, tokenChan, errChan, events,
                   loaded, refreshPre, fileAtDeviceAuth, pollReqs,
                   polledAfterReturn, allPending, pollStart>>
    /\ UNCHANGED nonAuthVars

\* the deadline of the caller's context elapses while Authorize runs
ContextDeadline ==
    /\ pc # "done"
    /\ ~ctxDone
    /\ ctxDone' = TRUE
    /\ UNCHANGED <<now, tokenFile, c, pc, authResult, path, deviceResp,
                   tokenChan, errChan, events, loaded, refreshPre,
                   fileAtDeviceAuth>>
    /\ UNCHANGED pollVars
    /\ UNCHANGED nonAuthVars

\* performDeviceCodeAuth, select: case <-ctx.Done()
SelectDone ==
    /\ pc = "select"
    /\ ctxDone
    /\ events' = events \o <<"return">>
    /\ pc' = "done"
    /\ authResult' = "cancelled"
    /\ UNCHANGED <<now, tokenFile, c, ctxDone, path, deviceResp, tokenChan,
                   errChan, loaded, refreshPre, fileAtDeviceAuth>>
    /\ UNCHANGED pollVars
    /\ UNCHANGED nonAuthVars

\* performDeviceCodeAuth, select: case token := <-tokenChan, with SaveTokens
SelectToken ==
    /\ pc = "select"
    /\ tokenChan # <<>>
    /\ tokenChan' = Tail(tokenChan)
    /\ \E w \in WriteOutcomes :
        LET s == SaveTokens(SetTokens(c, Head(tokenChan)), tokenFile, now, w)
        IN  /\ c' = s.c
            /\ tokenFile' = s.file
            /\ events' = events
                   \o (IF s.wrote THEN <<"device_write">> ELSE <<>>)
                   \o <<"return">>
            /\ authResult' = IF s.err THEN "err_save" ELSE "ok"
            /\ path' = IF s.err THEN path ELSE "device"
    /\ pc' = "done"
    /\ UNCHANGED <<now, ctxDone, deviceResp, errChan, loaded, refreshPre,
                   fileAtDeviceAuth>>
    /\ UNCHANGED pollVars
    /\ UNCHANGED nonAuthVars

\* performDeviceCodeAuth, select: case err := <-errChan
SelectErr ==
    /\ pc = "select"
    /\ errChan # <<>>
    /\ errChan' = Tail(errChan)
    /\ events' = events \o <<"return">>
    /\ pc' = "done"
    /\ authResult' = "err_poll"
    /\ UNCHANGED <<now, tokenFile, c, ctxDone, path, deviceResp, tokenChan,
                   loaded, refreshPre, fileAtDeviceAuth>>
    /\ UNCHANGED pollVars
    /\ UNCHANGED nonAuthVars

Next ==
    \/ AuthorizeLoad
    \/ AuthorizeRefresh
    \/ AuthorizeRemove
    \/ GetDeviceCode
    \/ PollStart
    \/ PollExpired
    \/ PollRequest
    \/ PollSend
    \/ PollSleep
    \/ ContextDeadline
    \/ SelectDone
    \/ SelectToken
    \/ SelectErr

Spec == Init /\ [][Next]_vars

\* main.go, refreshTokenCommand (the command ar), run after Authorize
\* returned success: HasValidToken, LoadTokens, HasRefreshToken,
\* RefreshToken, and the exit
RefreshTokenCommand ==
    /\ pc = "done"
    /\ authResult = "ok"
    /\ pc' = "exit"
    /\ IF ~HasValidToken(tokenFile)
       THEN /\ events' = events \o <<"stat", "exit_err">>
            /\ UNCHANGED <<c, tokenFile, refreshPre>>
       ELSE LET l == LoadTokens(c, tokenFile)
            IN  IF l.err
                THEN /\ events' = events \o <<"stat", "read", "exit_err">>
                     /\ c' = l.c
                     /\ UNCHANGED <<tokenFile, refreshPre>>
                ELSE IF l.c.refreshToken = ""
                THEN /\ events' = events \o <<"stat", "read", "exit_err">>
                     /\ c' = l.c
                     /\ UNCHANGED <<tokenFile, refreshPre>>
                ELSE \E resp \in RefreshResponses, w \in WriteOutcomes :
                        LET r == RefreshToken(l.c, tokenFile, now, resp, w)
                        IN  /\ refreshPre' = l.c
                            /\ c' = r.c
                            /\ tokenFile' = r.file
                            /\ events' = events \o <<"stat", "read">>
                                   \o RefreshEvents(r)
                                   \o (IF r.err THEN <<"exit_err">>
                                       ELSE <<"exit_ok">>)
    /\ UNCHANGED <<now, ctxDone, authResult, path, deviceResp, tokenChan,
                   errChan, loaded, fileAtDeviceAuth>>
    /\ UNCHANGED pollVars
    /\ UNCHANGED nonAuthVars

\* one process: Authorize and, for the command ar, refreshTokenCommand (the
\* other commands do not touch the token file)
NextCmd ==
    \/ Next
    \/ RefreshTokenCommand

SpecCmd == Init /\ [][NextCmd]_vars

\* the clocks at which a process starts, for the checks of IsTokenExpired
StartClocks == {Now0, Now0 + 1}

\* as Init, with every combination of the fields of the stored record
InitLoad ==
    /\ now \in StartClocks
    /\ tokenFile \in AllStoredFiles
    /\ c = NewClient
    /\ ctxDone = FALSE
    /\ pc = "start"
    /\ authResult = "none"
    /\ path = "none"
    /\ deviceResp = NoSession
    /\ ppc = "idle"
    /\ interval = 0
    /\ timeout = 0
    /\ pollToken = EmptyTokenResponse
    /\ tokenChan = <<>>
    /\ errChan = <<>>
    /\ events = <<>>
    /\ loaded = NotLoaded
    /\ refreshPre = NewClient
    /\ fileAtDeviceAuth = NoFile
    /\ pollReqs = 0
    /\ polledAfterReturn = FALSE
    /\ allPending = TRUE
    /\ pollStart = 0
    /\ lastPoll = "none"
    /\ UploadIdle
    /\ SliceIdle
    /\ WalkIdle
    /\ BatchIdle
    /\ CmdIdle

\* Authorize on a stored record, up to the device-code authorization
NextLoad ==
    \/ AuthorizeLoad
    \/ AuthorizeRefresh
    \/ AuthorizeRemove

SpecLoad == InitLoad /\ [][NextLoad]_vars

----------------------------------------------------------------------------
(* UploadFile *)

\* UploadFile returns
UploadReturn(result) ==
    /\ upc' = "done"
    /\ uploadResult' = result

\* UploadFile up to the precreate request: the access token, os.Stat,
\* ensureRemoteDirExists, calculateSliceMD5, json.Marshal, c.client.Do
UploadFilePrecreate ==
    /\ upc = "start"
    /\ \E script \in ReadScripts :
        LET md5s == CalculateSliceMD5(localFile, SliceSize, script)
        IN  IF c.accessToken = ""
            THEN /\ UploadReturn(UploadErr("no access token", -1))
                 /\ UNCHANGED <<fileSize, sliceMD5s, requests>>
            ELSE IF localFile.kind = "missing"
            THEN /\ UploadReturn(UploadErr("failed to get local file info", -1))
                 /\ UNCHANGED <<fileSize, sliceMD5s, requests>>
            ELSE IF localFile.kind = "dir"
            THEN /\ UploadReturn(UploadErr("cannot upload directory", -1))
                 /\ UNCHANGED <<fileSize, sliceMD5s, requests>>
            ELSE IF EnsureRemoteDirExists(FilepathDir(remoteFilePath))
            THEN /\ UploadReturn(UploadErr(
                         "remote path must be an absolute path", -1))
                 /\ fileSize' = Len(localFile.bytes)
                 /\ UNCHANGED <<sliceMD5s, requests>>
            ELSE IF md5s.err
            THEN /\ UploadReturn(UploadErr(
                         "failed to calculate slice MD5s", -1))
                 /\ fileSize' = Len(localFile.bytes)
                 /\ UNCHANGED <<sliceMD5s, requests>>
            ELSE /\ fileSize' = Len(localFile.bytes)
                 /\ sliceMD5s' = md5s.list
                 /\ requests' = Append(requests,
                        [kind |-> "precreate", client |-> "client",
                         path |-> FormValue(remoteFilePath),
                         size |-> Len(localFile.bytes),
                         block_list |-> JSONMarshal(md5s.list)])
                 /\ upc' = "precreate"
                 /\ UNCHANGED uploadResult
    /\ UNCHANGED <<localFile, remoteFilePath, precreateResponse, partseq,
                   uploadedBytes, responses>>
    /\ UNCHANGED nonUploadVars

\* the answer to the precreate request taken for a demand to upload
\* whatever its return_type
UploadFilePrecreateResponseIgnoresReturnType ==
    /\ upc = "precreate"
    /\ \E resp \in PrecreateAnswers, open \in {"ok", "fail"} :
        /\ responses' = Append(responses, resp)
        /\ IF resp.kind = "neterr"
           THEN /\ UploadReturn(UploadErr("precreate request failed", -1))
                /\ UNCHANGED <<precreateResponse, partseq, uploadedBytes>>
           ELSE IF resp.kind = "unreadable"
           THEN /\ UploadReturn(UploadErr(
                        "failed to read precreate response body", -1))
                /\ UNCHANGED <<precreateResponse, partseq, uploadedBytes>>
           ELSE IF resp.kind = "http" /\ resp.status # 200
           THEN /\ UploadReturn(UploadErr("precreate API failed with status", -1))
                /\ UNCHANGED <<precreateResponse, partseq, uploadedBytes>>
           ELSE IF resp.kind = "badjson"
           THEN /\ UploadReturn(UploadErr(
                        "failed to unmarshal precreate response", -1))
                /\ UNCHANGED <<precreateResponse, partseq, uploadedBytes>>
           ELSE /\ precreateResponse' = [Errno |-> resp.Errno,
                                         UploadID |-> resp.UploadID,
                                         ReturnType |-> resp.ReturnType]
                /\ IF resp.Errno # 0
                   THEN /\ UploadReturn(UploadErr(
                                "precreate API returned error code", -1))
                        /\ UNCHANGED <<partseq, uploadedBytes>>
                   ELSE IF FALSE
                   THEN /\ UploadReturn(UploadOk)
                        /\ UNCHANGED <<partseq, uploadedBytes>>
                   ELSE IF resp.UploadID = <<>>
                   THEN /\ UploadReturn(UploadErr(
                                "precreate API did not return uploadid", -1))
                        /\ UNCHANGED <<partseq, uploadedBytes>>
                   ELSE IF open = "fail"
                   THEN /\ UploadReturn(UploadErr(
                                "failed to open local file for uploading", -1))
                        /\ UNCHANGED <<partseq, uploadedBytes>>
                   ELSE /\ upc' = "slice"
                        /\ partseq' = 0
                        /\ uploadedBytes' = 0
                        /\ UNCHANGED uploadResult
    /\ UNCHANGED <<localFile, remoteFilePath, fileSize, sliceMD5s, requests>>
    /\ UNCHANGED nonUploadVars

\* UploadFile: the answer to the precreate request, and os.Open of the local
\* file
UploadFilePrecreateResponse ==
    /\ upc = "precreate"
    /\ \E resp \in PrecreateAnswers, open \in {"ok", "fail"} :
        /\ responses' = Append(responses, resp)
        /\ IF resp.kind = "neterr"
           THEN /\ UploadReturn(UploadErr("precreate request failed", -1))
                /\ UNCHANGED <<precreateResponse, partseq, uploadedBytes>>
           ELSE IF resp.kind = "unreadable"
           THEN /\ UploadReturn(UploadErr(
                        "failed to read precreate response body", -1))
                /\ UNCHANGED <<precreateResponse, partseq, uploadedBytes>>
           ELSE IF resp.kind = "http" /\ resp.status # 200
           THEN /\ UploadReturn(UploadErr("precreate API failed with status", -1))
                /\ UNCHANGED <<precreateResponse, partseq, uploadedBytes>>
           ELSE IF resp.kind = "badjson"
           THEN /\ UploadReturn(UploadErr(
                        "failed to unmarshal precreate response", -1))
                /\ UNCHANGED <<precreateResponse, partseq, uploadedBytes>>
           ELSE /\ precreateResponse' = [Errno |-> resp.Errno,
                                         UploadID |-> resp.UploadID,
                                         ReturnType |-> resp.ReturnType]
                /\ IF resp.Errno # 0
                   THEN /\ UploadReturn(UploadErr(
                                "precreate API returned error code", -1))
                        /\ UNCHANGED <<partseq, uploadedBytes>>
                   ELSE IF resp.ReturnType = NoUploadNeeded
                   THEN /\ UploadReturn(UploadOk)
                        /\ UNCHANGED <<partseq, uploadedBytes>>
                   ELSE IF resp.UploadID = <<>>
                   THEN /\ UploadReturn(UploadErr(
                                "precreate API did not return uploadid", -1))
                        /\ UNCHANGED <<partseq, uploadedBytes>>
                   ELSE IF open = "fail"
                   THEN /\ UploadReturn(UploadErr(
                                "failed to open local file for uploading", -1))
                        /\ UNCHANGED <<partseq, uploadedBytes>>
                   ELSE /\ upc' = "slice"
                        /\ partseq' = 0
                        /\ uploadedBytes' = 0
                        /\ UNCHANGED uploadResult
    /\ UNCHANGED <<localFile, remoteFilePath, fileSize, sliceMD5s, requests>>
    /\ UNCHANGED nonUploadVars

\* UploadFile, the slice loop: Seek, io.ReadFull, the multipart body and
\* c.client.Do for slice i
UploadSlice ==
    /\ upc = "slice"
    /\ partseq < Len(sliceMD5s)
    /\ \E rd \in {"ok", "seek_err", "read_err"} :
        IF rd = "seek_err"
        THEN /\ UploadReturn(UploadErr("failed to seek to slice position", -1))
             /\ UNCHANGED requests
        ELSE IF rd = "read_err"
        THEN /\ UploadReturn(UploadErr("failed to read file slice", partseq))
             /\ UNCHANGED requests
        ELSE LET offset == partseq * SliceSize
                 n == IF offset >= Len(localFile.bytes) THEN 0
                      ELSE Min(SliceSize, Len(localFile.bytes) - offset)
                 currentSlice == SubSeq(localFile.bytes, offset + 1, offset + n)
                 query == SliceUploadQuery(remoteFilePath,
                                           precreateResponse.UploadID, partseq)
             IN  /\ requests' = Append(requests,
                        [kind |-> "slice", client |-> "client",
                         slice |-> partseq, path |-> query.path,
                         uploadid |-> query.uploadid,
                         partseq |-> query.partseq, data |-> currentSlice])
                 /\ upc' = "slice_wait"
                 /\ UNCHANGED uploadResult
    /\ UNCHANGED <<localFile, remoteFilePath, fileSize, sliceMD5s,
                   precreateResponse, partseq, uploadedBytes, responses>>
    /\ UNCHANGED nonUploadVars

\* the answer to a slice request accepted whatever its status
UploadSliceResponseIgnoresStatus ==
    /\ upc = "slice_wait"
    /\ \E resp \in SliceAnswers :
        /\ responses' = Append(responses, resp)
        /\ IF resp.kind = "neterr"
           THEN /\ UploadReturn(UploadErr(
                        "slice upload request failed for part", partseq))
                /\ UNCHANGED <<partseq, uploadedBytes>>
           ELSE IF resp.kind = "unreadable"
           THEN /\ UploadReturn(UploadErr(
                        "failed to read slice upload response body for part",
                        partseq))
                /\ UNCHANGED <<partseq, uploadedBytes>>
           ELSE IF FALSE
           THEN /\ UploadReturn(UploadErr("slice upload API failed for part",
                                          partseq))
                /\ UNCHANGED <<partseq, uploadedBytes>>
           ELSE /\ uploadedBytes' =
                        uploadedBytes + Len(requests[Len(requests)].data)
                /\ partseq' = partseq + 1
                /\ upc' = "slice"
                /\ UNCHANGED uploadResult
    /\ UNCHANGED <<localFile, remoteFilePath, fileSize, sliceMD5s,
                   precreateResponse, requests>>
    /\ UNCHANGED nonUploadVars

\* UploadFile, the slice loop: the answer to the request for slice i
UploadSliceResponse ==
    /\ upc = "slice_wait"
    /\ \E resp \in SliceAnswers :
        /\ responses' = Append(responses, resp)
        /\ IF resp.kind = "neterr"
           THEN /\ UploadReturn(UploadErr(
                        "slice upload request failed for part", partseq))
                /\ UNCHANGED <<partseq, uploadedBytes>>
           ELSE IF resp.kind = "unreadable"
           THEN /\ UploadReturn(UploadErr(
                        "failed to read slice upload response body for part",
                        partseq))
                /\ UNCHANGED <<partseq, uploadedBytes>>
           ELSE IF resp.status # 200
           THEN /\ UploadReturn(UploadErr("slice upload API failed for part",
                                          partseq))
                /\ UNCHANGED <<partseq, uploadedBytes>>
           ELSE /\ uploadedBytes' =
                        uploadedBytes + Len(requests[Len(requests)].data)
                /\ partseq' = partseq + 1
                /\ upc' = "slice"
                /\ UNCHANGED uploadResult
    /\ UNCHANGED <<localFile, remoteFilePath, fileSize, sliceMD5s,
                   precreateResponse, requests>>
    /\ UNCHANGED nonUploadVars

\* UploadFile after the slice loop: the create file request
UploadCreateFile ==
    /\ upc = "slice"
    /\ ~(partseq < Len(sliceMD5s))
    /\ requests' = Append(requests,
            [kind |-> "create", client |-> "client",
             path |-> FormValue(remoteFilePath), size |-> fileSize,
             uploadid |-> FormValue(precreateResponse.UploadID),
             block_list |-> JSONMarshal(sliceMD5s)])
    /\ upc' = "create"
    /\ UNCHANGED <<localFile, remoteFilePath, fileSize, sliceMD5s,
                   precreateResponse, partseq, uploadedBytes, responses,
                   uploadResult>>
    /\ UNCHANGED nonUploadVars

\* the answer to the create file request accepted whatever its errno
UploadCreateFileResponseIgnoresErrno ==
    /\ upc = "create"
    /\ \E resp \in CreateFileAnswers :
        /\ responses' = Append(responses, resp)
        /\ IF resp.kind = "neterr"
           THEN UploadReturn(UploadErr("create file request failed", -1))
           ELSE IF resp.kind = "unreadable"
           THEN UploadReturn(UploadErr(
                    "failed to read create file response body", -1))
           ELSE IF resp.kind = "http" /\ resp.status # 200
           THEN UploadReturn(UploadErr("create file API failed with status", -1))
           ELSE IF resp.kind = "badjson"
           THEN UploadReturn(UploadErr(
                    "failed to unmarshal create file response", -1))
           ELSE IF FALSE
           THEN UploadReturn(UploadErr(
                    "create file API returned error code", -1))
           ELSE UploadReturn(UploadOk)
    /\ UNCHANGED <<localFile, remoteFilePath, fileSize, sliceMD5s,
                   precreateResponse, partseq, uploadedBytes, requests>>
    /\ UNCHANGED nonUploadVars

\* UploadFile: the answer to the create file request
UploadCreateFileResponse ==
    /\ upc = "create"
    /\ \E resp \in CreateFileAnswers :
        /\ responses' = Append(responses, resp)
        /\ IF resp.kind = "neterr"
           THEN UploadReturn(UploadErr("create file request failed", -1))
           ELSE IF resp.kind = "unreadable"
           THEN UploadReturn(UploadErr(
                    "failed to read create file response body", -1))
           ELSE IF resp.kind = "http" /\ resp.status # 200
           THEN UploadReturn(UploadErr("create file API failed with status", -1))
           ELSE IF resp.kind = "badjson"
           THEN UploadReturn(UploadErr(
                    "failed to unmarshal create file response", -1))
           ELSE IF resp.Errno # 0
           THEN UploadReturn(UploadErr(
                    "create file API returned error code", -1))
           ELSE UploadReturn(UploadOk)
    /\ UNCHANGED <<localFile, remoteFilePath, fileSize, sliceMD5s,
                   precreateResponse, partseq, uploadedBytes, requests>>
    /\ UNCHANGED nonUploadVars

\* a client, authorized or not, is asked to upload what is at localFilePath
InitUpload ==
    /\ now = Now0
    /\ tokenFile = NoFile
    /\ c \in {NewClient, AuthorizedClient}
    /\ ctxDone = FALSE
    /\ pc = "done"
    /\ authResult = IF c = NewClient THEN "none" ELSE "ok"
    /\ path = IF c = NewClient THEN "none" ELSE "device"
    /\ deviceResp = NoSession
    /\ ppc = "idle"
    /\ interval = 0
    /\ timeout = 0
    /\ pollToken = EmptyTokenResponse
    /\ tokenChan = <<>>
    /\ errChan = <<>>
    /\ events = <<>>
    /\ loaded = NotLoaded
    /\ refreshPre = NewClient
    /\ fileAtDeviceAuth = NoFile
    /\ pollReqs = 0
    /\ polledAfterReturn = FALSE
    /\ allPending = TRUE
    /\ pollStart = 0
    /\ lastPoll = "none"
    /\ upc = "start"
    /\ localFile \in LocalFiles
    /\ remoteFilePath \in RemotePaths
    /\ fileSize = 0
    /\ sliceMD5s = <<>>
    /\ precreateResponse = NoPrecreateResponse
    /\ partseq = 0
    /\ uploadedBytes = 0
    /\ requests = <<>>
    /\ responses = <<>>
    /\ uploadResult = UploadNone
    /\ SliceIdle
    /\ WalkIdle
    /\ BatchIdle
    /\ CmdIdle

NextUpload ==
    \/ UploadFilePrecreate
    \/ UploadFilePrecreateResponse
    \/ UploadSlice
    \/ UploadSliceResponse
    \/ UploadCreateFile
    \/ UploadCreateFileResponse

SpecUpload == InitUpload /\ [][NextUpload]_vars

----------------------------------------------------------------------------
(* CalculateSliceMD5 called on its own *)

\* calls of CalculateSliceMD5 on the one local file
MaxRuns == 2

\* the token lifecycle at rest, the client being cl
ClientIdle(cl) ==
    /\ now = Now0
    /\ tokenFile = NoFile
    /\ c = cl
    /\ ctxDone = FALSE
    /\ pc = "done"
    /\ authResult = IF cl = NewClient THEN "none" ELSE "ok"
    /\ path = IF cl = NewClient THEN "none" ELSE "device"
    /\ deviceResp = NoSession
    /\ ppc = "idle"
    /\ interval = 0
    /\ timeout = 0
    /\ pollToken = EmptyTokenResponse
    /\ tokenChan = <<>>
    /\ errChan = <<>>
    /\ events = <<>>
    /\ loaded = NotLoaded
    /\ refreshPre = NewClient
    /\ fileAtDeviceAuth = NoFile
    /\ pollReqs = 0
    /\ polledAfterReturn = FALSE
    /\ allPending = TRUE
    /\ pollStart = 0
    /\ lastPoll = "none"

\* a local file, and no call of CalculateSliceMD5 yet
InitSlice ==
    /\ ClientIdle(NewClient)
    /\ upc = "idle"
    /\ localFile \in LocalFiles
    /\ remoteFilePath = <<"/", "d", "/", "f">>
    /\ fileSize = 0
    /\ sliceMD5s = <<>>
    /\ precreateResponse = NoPrecreateResponse
    /\ partseq = 0
    /\ uploadedBytes = 0
    /\ requests = <<>>
    /\ responses = <<>>
    /\ uploadResult = UploadNone
    /\ hashRuns = <<>>
    /\ WalkIdle
    /\ BatchIdle
    /\ CmdIdle

\* one call CalculateSliceMD5(localFilePath, sliceSize), the reads of the
\* file going as some script says
RunCalculateSliceMD5 ==
    /\ upc = "idle"
    /\ Len(hashRuns) < MaxRuns
    /\ \E script \in ReadScripts :
        LET md5s == CalculateSliceMD5(localFile, SliceSize, script)
        IN  hashRuns' = Append(hashRuns,
                [script |-> script, err |-> md5s.err, list |-> md5s.list])
    /\ UNCHANGED nonSliceVars

NextSlice == RunCalculateSliceMD5

SpecSlice == InitSlice /\ [][NextSlice]_vars

----------------------------------------------------------------------------
(* Walk and WalkRecursive, and the consumer of the two channels *)

\* the call of WalkRecursive in progress
TopFrame == wstack[Len(wstack)]

\* the calls of WalkRecursive in progress, the innermost one replaced
WithTopFrame(frame) == [wstack EXCEPT ![Len(wstack)] = frame]

\* the error of ListFiles(path), "" when it returns the list: the check of
\* the access token first, then the request
ListFilesError(cl, t, failed, p) ==
    IF cl.accessToken = "" THEN "access token is not available"
    ELSE IF p \in failed THEN "list failed"
    ELSE ""

\* a remote tree, the listings that fail, a consumer; Walk not called yet
InitWalk ==
    /\ \E cl \in {NewClient, AuthorizedClient} : ClientIdle(cl)
    /\ UploadIdle
    /\ SliceIdle
    /\ tree \in Trees
    /\ failing \in SUBSET (DOMAIN tree.list)
    /\ consumer \in {"eager", "late"}
    /\ wpc = "start"
    /\ wstack = <<>>
    /\ fileChan = <<>>
    /\ fileChanClosed = FALSE
    /\ walkErrChan = <<>>
    /\ received = <<>>
    /\ errorsReceived = <<>>
    /\ walkLog = <<>>
    /\ BatchIdle
    /\ CmdIdle

\* Walk(rootPath): the two channels are made and the goroutine starts with
\* the call WalkRecursive(rootPath, fileChan, errChan)
Walk ==
    /\ wpc = "start"
    /\ wstack' = <<[path |-> tree.root, files |-> <<>>, pos |-> 0]>>
    /\ wpc' = "list"
    /\ UNCHANGED <<tree, failing, consumer, fileChan, fileChanClosed,
                   walkErrChan, received, errorsReceived, walkLog>>
    /\ UNCHANGED nonWalkVars

\* files, err := c.ListFiles(path) at the head of WalkRecursive
WalkListFiles ==
    /\ wpc = "list"
    /\ LET p == TopFrame.path
           err == ListFilesError(c, tree, failing, p)
       IN  /\ walkLog' = Append(walkLog,
                  [kind |-> "list", path |-> p, request |-> c.accessToken # "",
                   err |-> err])
           /\ IF err # ""
              THEN /\ wpc' = "senderr"
                   /\ UNCHANGED wstack
              ELSE /\ wpc' = "loop"
                   /\ wstack' = WithTopFrame(
                          [path |-> p, files |-> tree.list[p], pos |-> 1])
    /\ UNCHANGED <<tree, failing, consumer, fileChan, fileChanClosed,
                   walkErrChan, received, errorsReceived>>
    /\ UNCHANGED nonWalkVars

\* errChan <- err; return: the send waits while the buffer is full
WalkSendError ==
    /\ wpc = "senderr"
    /\ Len(walkErrChan) < WalkErrChanCap
    /\ walkErrChan' = Append(walkErrChan, [dir |-> TopFrame.path])
    /\ walkLog' = Append(walkLog,
           [kind |-> "err", path |-> TopFrame.path, request |-> FALSE,
            err |-> ""])
    /\ wpc' = "return"
    /\ UNCHANGED <<tree, failing, consumer, wstack, fileChan, fileChanClosed,
                   received, errorsReceived>>
    /\ UNCHANGED nonWalkVars

\* a fileChan with a buffer, where the send does not wait for the receiver
WalkSendFileBuffered ==
    /\ wpc = "loop"
    /\ TopFrame.pos <= Len(TopFrame.files)
    /\ Len(fileChan) < 2
    /\ fileChan' = Append(fileChan, TopFrame.files[TopFrame.pos])
    /\ walkLog' = Append(walkLog,
           [kind |-> "send", path |-> TopFrame.files[TopFrame.pos].Path,
            request |-> FALSE, err |-> ""])
    /\ wpc' = "sent"
    /\ UNCHANGED <<tree, failing, consumer, wstack, fileChanClosed,
                   walkErrChan, received, errorsReceived>>
    /\ UNCHANGED nonWalkVars

\* fileChan <- file in the range loop: the goroutine waits at the send until
\* the consumer receives
WalkSendFile ==
    /\ wpc = "loop"
    /\ TopFrame.pos <= Len(TopFrame.files)
    /\ fileChan' = Append(fileChan, TopFrame.files[TopFrame.pos])
    /\ walkLog' = Append(walkLog,
           [kind |-> "send", path |-> TopFrame.files[TopFrame.pos].Path,
            request |-> FALSE, err |-> ""])
    /\ wpc' = "sending"
    /\ UNCHANGED <<tree, failing, consumer, wstack, fileChanClosed,
                   walkErrChan, received, errorsReceived>>
    /\ UNCHANGED nonWalkVars

\* a loop that goes on to the next file without the recursive call
WalkAfterSendNoRecursion ==
    /\ wpc = "sent"
    /\ wstack' = WithTopFrame([TopFrame EXCEPT !.pos = @ + 1])
    /\ wpc' = "loop"
    /\ UNCHANGED <<tree, failing, consumer, fileChan, fileChanClosed,
                   walkErrChan, received, errorsReceived, walkLog>>
    /\ UNCHANGED nonWalkVars

\* after the send: if file.IsDir == 1 the call WalkRecursive(file.Path, ...),
\* else the next file
WalkAfterSend ==
    /\ wpc = "sent"
    /\ LET file == TopFrame.files[TopFrame.pos]
       IN  IF file.IsDir = 1
           THEN /\ wstack' = Append(wstack,
                       [path |-> file.Path, files |-> <<>>, pos |-> 0])
                /\ wpc' = "list"
           ELSE /\ wstack' = WithTopFrame([TopFrame EXCEPT !.pos = @ + 1])
                /\ wpc' = "loop"
    /\ UNCHANGED <<tree, failing, consumer, fileChan, fileChanClosed,
                   walkErrChan, received, errorsReceived, walkLog>>
    /\ UNCHANGED nonWalkVars

\* the range loop is over
WalkLoopEnd ==
    /\ wpc = "loop"
    /\ TopFrame.pos > Len(TopFrame.files)
    /\ wpc' = "return"
    /\ UNCHANGED <<tree, failing, consumer, wstack, fileChan, fileChanClosed,
                   walkErrChan, received, errorsReceived, walkLog>>
    /\ UNCHANGED nonWalkVars

\* a return that closes fileChan whichever call returns
WalkReturnClosesEarly ==
    /\ wpc = "return"
    /\ LET rest == SubSeq(wstack, 1, Len(wstack) - 1)
       IN  IF rest = <<>>
           THEN /\ wstack' = rest
                /\ wpc' = "close"
                /\ UNCHANGED <<fileChanClosed, walkLog>>
           ELSE /\ wstack' = [rest EXCEPT ![Len(rest)].pos = @ + 1]
                /\ wpc' = "loop"
                /\ fileChanClosed' = TRUE
                /\ walkLog' = Append(walkLog,
                       [kind |-> "close", path |-> "", request |-> FALSE,
                        err |-> ""])
    /\ UNCHANGED <<tree, failing, consumer, fileChan, walkErrChan, received,
                   errorsReceived>>
    /\ UNCHANGED nonWalkVars

\* WalkRecursive returns: to the range loop of its caller, which goes on to
\* the next file, or, for the outermost call, to the goroutine of Walk
WalkReturn ==
    /\ wpc = "return"
    /\ LET rest == SubSeq(wstack, 1, Len(wstack) - 1)
       IN  IF rest = <<>>
           THEN /\ wstack' = rest
                /\ wpc' = "close"
           ELSE /\ wstack' = [rest EXCEPT ![Len(rest)].pos = @ + 1]
                /\ wpc' = "loop"
    /\ UNCHANGED <<tree, failing, consumer, fileChan, fileChanClosed,
                   walkErrChan, received, errorsReceived, walkLog>>
    /\ UNCHANGED nonWalkVars

\* defer close(fileChan) of the goroutine
WalkClose ==
    /\ wpc = "close"
    /\ fileChanClosed' = TRUE
    /\ walkLog' = Append(walkLog,
           [kind |-> "close", path |-> "", request |-> FALSE, err |-> ""])
    /\ wpc' = "done"
    /\ UNCHANGED <<tree, failing, consumer, wstack, fileChan, walkErrChan,
                   received, errorsReceived>>
    /\ UNCHANGED nonWalkVars

\* the consumer receives from fileChan, which lets the send return
ConsumerReceiveFile ==
    /\ fileChan # <<>>
    /\ received' = Append(received, Head(fileChan))
    /\ fileChan' = Tail(fileChan)
    /\ walkLog' = Append(walkLog,
           [kind |-> "recv", path |-> Head(fileChan).Path, request |-> FALSE,
            err |-> ""])
    /\ wpc' = IF wpc = "sending" THEN "sent" ELSE wpc
    /\ UNCHANGED <<tree, failing, consumer, wstack, fileChanClosed,
                   walkErrChan, errorsReceived>>
    /\ UNCHANGED nonWalkVars

\* the consumer receives from errChan
ConsumerReceiveError ==
    /\ walkErrChan # <<>>
    /\ consumer = "eager" \/ fileChanClosed
    /\ errorsReceived' = Append(errorsReceived, Head(walkErrChan))
    /\ walkErrChan' = Tail(walkErrChan)
    /\ UNCHANGED <<tree, failing, consumer, wpc, wstack, fileChan,
                   fileChanClosed, received, walkLog>>
    /\ UNCHANGED nonWalkVars

\* the steps of the goroutine of Walk
WalkGoroutine ==
    \/ WalkListFiles
    \/ WalkSendError
    \/ WalkSendFile
    \/ WalkAfterSend
    \/ WalkLoopEnd
    \/ WalkReturn
    \/ WalkClose

NextWalk ==
    \/ Walk
    \/ WalkGoroutine
    \/ ConsumerReceiveFile
    \/ ConsumerReceiveError

SpecWalk == InitWalk /\ [][NextWalk]_vars

\* the goroutine runs whenever it can, and the consumer receives whenever
\* it is willing to and something is there
SpecWalkFair ==
    /\ SpecWalk
    /\ WF_vars(WalkGoroutine)
    /\ WF_vars(ConsumerReceiveFile)
    /\ WF_vars(ConsumerReceiveError)

----------------------------------------------------------------------------
(* RenameFiles, MoveFiles, CopyFiles *)

\* a client, one of the three operations and its request list
InitBatch ==
    /\ \E cl \in {NewClient, AuthorizedClient} : ClientIdle(cl)
    /\ UploadIdle
    /\ SliceIdle
    /\ WalkIdle
    /\ batchOp \in BatchOps
    /\ batchRequests \in BatchRequestLists
    /\ batchPc = "start"
    /\ batchSent = <<>>
    /\ batchResponse = [kind |-> "none"]
    /\ batchResult = BatchNone
    /\ CmdIdle

\* the call up to c.client.Do(req): the access token and the request list
\* are checked, the list goes into the form field filelist as JSON
BatchFiles ==
    /\ batchPc = "start"
    /\ IF c.accessToken = ""
       THEN /\ batchResult' = BatchErr("no access token", <<>>)
            /\ batchPc' = "done"
            /\ UNCHANGED batchSent
       ELSE IF Len(batchRequests) = 0
       THEN /\ batchResult' = BatchErr("no files specified", <<>>)
            /\ batchPc' = "done"
            /\ UNCHANGED batchSent
       ELSE /\ batchSent' = Append(batchSent,
                   [kind |-> "filemanager", client |-> "client",
                    opera |-> batchOp, filelist |-> batchRequests])
            /\ batchPc' = "wait"
            /\ UNCHANGED batchResult
    /\ UNCHANGED <<batchOp, batchRequests, batchResponse>>
    /\ UNCHANGED nonBatchVars

\* the answer: transport error, unreadable body, status other than 200,
\* body that is no JSON, top-level errno, then the check of the items
BatchFilesResponse ==
    /\ batchPc = "wait"
    /\ \E a \in BatchAnswers :
        /\ batchResponse' = a
        /\ batchResult' =
               IF a.kind = "neterr" THEN BatchErr("request failed", <<>>)
               ELSE IF a.kind = "unreadable"
               THEN BatchErr("failed to read response", <<>>)
               ELSE IF a.kind = "http" /\ a.status # 200
               THEN BatchErr("request failed with status", <<>>)
               ELSE IF a.kind = "badjson"
               THEN BatchErr("failed to unmarshal response", <<>>)
               ELSE IF a.Errno # 0
               THEN BatchErr("API returned error code", <<>>)
               ELSE CheckItems(batchOp, batchRequests, a.Info)
    /\ batchPc' = "done"
    /\ UNCHANGED <<batchOp, batchRequests, batchSent>>
    /\ UNCHANGED nonBatchVars

NextBatch ==
    \/ BatchFiles
    \/ BatchFilesResponse

SpecBatch == InitBatch /\ [][NextBatch]_vars

----------------------------------------------------------------------------
(* downloadCommand with DownloadFileToPath, infoCommand with *)
(* GetAndDisplayFileInfo *)

\* a client, a command with its remote path, the local file as it is
InitCmd ==
    /\ \E cl \in {NewClient, AuthorizedClient} : ClientIdle(cl)
    /\ UploadIdle
    /\ SliceIdle
    /\ WalkIdle
    /\ BatchIdle
    /\ cmd \in {"download", "info"}
    /\ cmdPath \in CommandPaths
    /\ cpc = "start"
    /\ localPath \in {"absent", "old"}
    /\ cmdSent = <<>>
    /\ stepErrors = <<>>
    /\ fileInfo = FALSE
    /\ cmdResult = CommandNone
    /\ exitCode = -1

\* the command ends: os.Exit(1) after an error, else the return from main
CommandReturn(result) ==
    /\ cmdResult' = result
    /\ exitCode' = IF result.kind = "err" THEN 1 ELSE 0
    /\ cpc' = "done"

\* the list request of ListFiles, as GetFileInfo issues it
ListRequest(filePath) ==
    [kind |-> "list", client |-> "client",
     path |-> QueryEscape(GetFileInfoDir(filePath))]

\* downloadCommand calls DownloadFileToPath: the access token, os.MkdirAll
\* for the directory of the local path, then GetFileInfo, whose check of
\* the access token has been passed already, up to its list request
DownloadFileToPath ==
    /\ cpc = "start"
    /\ cmd = "download"
    /\ IF c.accessToken = ""
       THEN /\ CommandReturn(CommandErr("no access token"))
            /\ stepErrors' = Append(stepErrors, "DownloadFileToPath")
            /\ UNCHANGED cmdSent
       ELSE \E mkdirOk \in BOOLEAN :
            IF ~mkdirOk
            THEN /\ CommandReturn(CommandErr("failed to create directory"))
                 /\ stepErrors' = Append(stepErrors, "MkdirAll")
                 /\ UNCHANGED cmdSent
            ELSE /\ cmdSent' = Append(cmdSent, ListRequest(cmdPath))
                 /\ cpc' = "fileinfo"
                 /\ UNCHANGED <<stepErrors, cmdResult, exitCode>>
    /\ UNCHANGED <<cmd, cmdPath, localPath, fileInfo>>
    /\ UNCHANGED nonCmdVars

\* GetFileInfo returns: its error is printed as a warning and fileInfo
\* stays nil; then DownloadFile up to downloadClient.Do
DownloadGetFileInfoResponse ==
    /\ cpc = "fileinfo"
    /\ \E a \in FileInfoAnswers :
        /\ fileInfo' = (a = "found")
        /\ stepErrors' = IF a = "found" THEN stepErrors
                         ELSE Append(stepErrors, "GetFileInfo")
    /\ cmdSent' = Append(cmdSent,
           [kind |-> "download", client |-> "downloadClient",
            path |-> QueryEscape(cmdPath)])
    /\ cpc' = "download"
    /\ UNCHANGED <<cmd, cmdPath, localPath, cmdResult, exitCode>>
    /\ UNCHANGED nonCmdVars

\* the answer to the download request: transport error, status other than
\* 200, or os.Create of the local file, which may fail
DownloadFileResponse ==
    /\ cpc = "download"
    /\ \E a \in DownloadAnswers :
        IF a.kind = "neterr"
        THEN /\ CommandReturn(CommandErr("failed to download file"))
             /\ stepErrors' = Append(stepErrors, "DownloadFile")
             /\ UNCHANGED localPath
        ELSE IF a.status # 200
        THEN /\ CommandReturn(CommandErr("download request failed with status"))
             /\ stepErrors' = Append(stepErrors, "DownloadFile")
             /\ UNCHANGED localPath
        ELSE \E createOk \in BOOLEAN :
             IF ~createOk
             THEN /\ CommandReturn(CommandErr("failed to create local file"))
                  /\ stepErrors' = Append(stepErrors, "Create")
                  /\ UNCHANGED localPath
             ELSE /\ localPath' = "empty"
                  /\ cpc' = "copy"
                  /\ UNCHANGED <<stepErrors, cmdResult, exitCode>>
    /\ UNCHANGED <<cmd, cmdPath, cmdSent, fileInfo>>
    /\ UNCHANGED nonCmdVars

\* io.CopyBuffer of the body to the local file; after an error, with some
\* of the body written or none, os.Remove(localPath), whose own error is
\* not looked at
DownloadCopy ==
    /\ cpc = "copy"
    /\ \E copyOk \in BOOLEAN :
        IF copyOk
        THEN /\ localPath' = "complete"
             /\ CommandReturn(CommandOk)
             /\ UNCHANGED stepErrors
        ELSE /\ \E written \in {"empty", "partial"}, removeOk \in BOOLEAN :
                 localPath' = IF removeOk THEN "absent" ELSE written
             /\ stepErrors' = Append(stepErrors, "CopyBuffer")
             /\ CommandReturn(CommandErr("failed to write file content"))
    /\ UNCHANGED <<cmd, cmdPath, cmdSent, fileInfo>>
    /\ UNCHANGED nonCmdVars

\* infoCommand calls GetAndDisplayFileInfo: GetDetailedFileInfo up to its
\* meta request; without an access token it fails, and so does GetFileInfo
\* after it
GetAndDisplayFileInfo ==
    /\ cpc = "start"
    /\ cmd = "info"
    /\ IF c.accessToken = ""
       THEN /\ stepErrors' = stepErrors \o <<"GetDetailedFileInfo", "GetFileInfo">>
            /\ CommandReturn(CommandErr("error getting file information"))
            /\ UNCHANGED cmdSent
       ELSE /\ cmdSent' = Append(cmdSent,
                   [kind |-> "meta", client |-> "client",
                    path |-> QueryEscape(cmdPath)])
            /\ cpc' = "meta"
            /\ UNCHANGED <<stepErrors, cmdResult, exitCode>>
    /\ UNCHANGED <<cmd, cmdPath, localPath, fileInfo>>
    /\ UNCHANGED nonCmdVars

\* GetDetailedFileInfo returns: the file, or an error, after which
\* GetFileInfo is called, up to its list request
GetDetailedFileInfoResponse ==
    /\ cpc = "meta"
    /\ \E a \in FileInfoAnswers :
        IF a = "found"
        THEN /\ CommandReturn(CommandOk)
             /\ UNCHANGED <<stepErrors, cmdSent>>
        ELSE /\ stepErrors' = Append(stepErrors, "GetDetailedFileInfo")
             /\ cmdSent' = Append(cmdSent, ListRequest(cmdPath))
             /\ cpc' = "infolist"
             /\ UNCHANGED <<cmdResult, exitCode>>
    /\ UNCHANGED <<cmd, cmdPath, localPath, fileInfo>>
    /\ UNCHANGED nonCmdVars

\* GetFileInfo returns to GetAndDisplayFileInfo
GetFileInfoResponse ==
    /\ cpc = "infolist"
    /\ \E a \in FileInfoAnswers :
        IF a = "found"
        THEN /\ CommandReturn(CommandOk)
             /\ UNCHANGED stepErrors
        ELSE /\ stepErrors' = Append(stepErrors, "GetFileInfo")
             /\ CommandReturn(CommandErr("error getting file information"))
    /\ UNCHANGED <<cmd, cmdPath, localPath, cmdSent, fileInfo>>
    /\ UNCHANGED nonCmdVars

NextCommand ==
    \/ DownloadFileToPath
    \/ DownloadGetFileInfoResponse
    \/ DownloadFileResponse
    \/ DownloadCopy
    \/ GetAndDisplayFileInfo
    \/ GetDetailedFileInfoResponse
    \/ GetFileInfoResponse

SpecCommand == InitCmd /\ [][NextCommand]_vars

----------------------------------------------------------------------------
(* CreateDir, RemoveFile, GetDiskInfo, and every operation called once *)

\* the three operations with one request each
SingleRequestOps == {"mkdir", "remove", "quota"}

\* what the one request of CreateDir, RemoveFiles, GetDiskInfo comes to:
\* transport error, status other than 200, errno other than 0 in the body,
\* an item of the delete list with errno other than 0, success
SingleRequestAnswers == {"neterr", "status", "errno", "item", "ok"}

\* a client and one of the three operations with its remote path
InitSingleRequest ==
    /\ \E cl \in {NewClient, AuthorizedClient} : ClientIdle(cl)
    /\ UploadIdle
    /\ SliceIdle
    /\ WalkIdle
    /\ BatchIdle
    /\ cmd \in SingleRequestOps
    /\ cmdPath \in CommandPaths
    /\ cpc = "start"
    /\ localPath \in {"absent", "old"}
    /\ cmdSent = <<>>
    /\ stepErrors = <<>>
    /\ fileInfo = FALSE
    /\ cmdResult = CommandNone
    /\ exitCode = -1

\* CreateDir up to c.client.Do: the access token, the prefix of the path
CreateDirWithoutTokenCheck ==
    /\ cpc = "start"
    /\ cmd = "mkdir"
    /\ IF Head(cmdPath) # "/"
       THEN /\ CommandReturn(CommandErr("remote directory path must be absolute"))
            /\ stepErrors' = Append(stepErrors, "CreateDir")
            /\ UNCHANGED cmdSent
       ELSE /\ cmdSent' = Append(cmdSent,
                   [kind |-> "create", client |-> "client",
                    path |-> QueryEscape(cmdPath)])
            /\ cpc' = "answer"
            /\ UNCHANGED <<stepErrors, cmdResult, exitCode>>
    /\ UNCHANGED <<cmd, cmdPath, localPath, fileInfo>>
    /\ UNCHANGED nonCmdVars

CreateDir ==
    /\ cpc = "start"
    /\ cmd = "mkdir"
    /\ IF c.accessToken = ""
       THEN /\ CommandReturn(CommandErr("no access token"))
            /\ stepErrors' = Append(stepErrors, "CreateDir")
            /\ UNCHANGED cmdSent
       ELSE IF Head(cmdPath) # "/"
       THEN /\ CommandReturn(CommandErr("remote directory path must be absolute"))
            /\ stepErrors' = Append(stepErrors, "CreateDir")
            /\ UNCHANGED cmdSent
       ELSE /\ cmdSent' = Append(cmdSent,
                   [kind |-> "create", client |-> "client",
                    path |-> QueryEscape(cmdPath)])
            /\ cpc' = "answer"
            /\ UNCHANGED <<stepErrors, cmdResult, exitCode>>
    /\ UNCHANGED <<cmd, cmdPath, localPath, fileInfo>>
    /\ UNCHANGED nonCmdVars

\* RemoveFile(path), that is RemoveFiles of the one path, up to
\* c.client.Do: the access token; the list is not empty
RemoveFile ==
    /\ cpc = "start"
    /\ cmd = "remove"
    /\ IF c.accessToken = ""
       THEN /\ CommandReturn(CommandErr("no access token"))
            /\ stepErrors' = Append(stepErrors, "RemoveFiles")
            /\ UNCHANGED cmdSent
       ELSE /\ cmdSent' = Append(cmdSent,
                   [kind |-> "filemanager", client |-> "client",
                    path |-> cmdPath])
            /\ cpc' = "answer"
            /\ UNCHANGED <<stepErrors, cmdResult, exitCode>>
    /\ UNCHANGED <<cmd, cmdPath, localPath, fileInfo>>
    /\ UNCHANGED nonCmdVars

\* GetDiskInfo up to c.client.Do: the access token
GetDiskInfo ==
    /\ cpc = "start"
    /\ cmd = "quota"
    /\ IF c.accessToken = ""
       THEN /\ CommandReturn(CommandErr("no access token"))
            /\ stepErrors' = Append(stepErrors, "GetDiskInfo")
            /\ UNCHANGED cmdSent
       ELSE /\ cmdSent' = Append(cmdSent,
                   [kind |-> "quota", client |-> "client", path |-> <<>>])
            /\ cpc' = "answer"
            /\ UNCHANGED <<stepErrors, cmdResult, exitCode>>
    /\ UNCHANGED <<cmd, cmdPath, localPath, fileInfo>>
    /\ UNCHANGED nonCmdVars

\* the answer to the request of one of the three: only RemoveFiles looks
\* at the items of the answer
SingleRequestResponse ==
    /\ cpc = "answer"
    /\ \E a \in SingleRequestAnswers :
        IF a = "ok" \/ (a = "item" /\ cmd # "remove")
        THEN /\ CommandReturn(CommandOk)
             /\ UNCHANGED stepErrors
        ELSE /\ CommandReturn(CommandErr(a))
             /\ stepErrors' = Append(stepErrors, "response")
    /\ UNCHANGED <<cmd, cmdPath, localPath, cmdSent, fileInfo>>
    /\ UNCHANGED nonCmdVars

NextSingleRequest ==
    \/ CreateDir
    \/ RemoveFile
    \/ GetDiskInfo
    \/ SingleRequestResponse

\* one call of one operation of the client: UploadFile, one of RenameFiles,
\* MoveFiles, CopyFiles, DownloadFileToPath, GetAndDisplayFileInfo, Walk
\* with its calls of ListFiles, CreateDir, RemoveFile, GetDiskInfo
InitOperation ==
    \/ InitUpload
    \/ InitBatch
    \/ InitCmd
    \/ InitWalk
    \/ InitSingleRequest

NextOperation ==
    \/ NextUpload
    \/ NextBatch
    \/ NextCommand
    \/ NextWalk
    \/ NextSingleRequest

SpecOperation == InitOperation /\ [][NextOperation]_vars

----------------------------------------------------------------------------
(* main: Authorize, then the command *)

\* the commands of main that the model follows after Authorize: download
\* and info; the switch of main treats every command alike
MainCommands == {"dl", "if"}

\* the token lifecycle but for the position of main
authVarsButPc ==
    <<now, tokenFile, c, ctxDone, authResult, path, deviceResp, tokenChan,
      errChan, events, loaded, refreshPre, fileAtDeviceAuth, pollVars>>

\* main calls the function of the command, downloadCommand or infoCommand,
\* here with the remote path /f
DispatchCommand(command) ==
    /\ pc' = "command"
    /\ cmd' = IF command = "dl" THEN "download" ELSE "info"
    /\ cpc' = "start"
    /\ UNCHANGED <<cmdPath, localPath, cmdSent, stepErrors, fileInfo,
                   cmdResult, exitCode>>
    /\ UNCHANGED authVarsButPc
    /\ UNCHANGED <<uploadVars, sliceVars, walkVars, batchVars>>

\* a main that goes on to the command whatever Authorize returned
MainDispatchWhateverAuthorizeReturned ==
    /\ pc = "done"
    /\ \E command \in MainCommands : DispatchCommand(command)

\* main after client.Authorize(ctx) returned nil: the switch on the command
MainDispatch ==
    /\ pc = "done"
    /\ authResult = "ok"
    /\ \E command \in MainCommands : DispatchCommand(command)

\* main after client.Authorize(ctx) returned an error: os.Exit(1)
MainAuthorizationFailed ==
    /\ pc = "done"
    /\ authResult # "ok"
    /\ pc' = "exit"
    /\ exitCode' = 1
    /\ UNCHANGED <<cmd, cmdPath, cpc, localPath, cmdSent, stepErrors,
                   fileInfo, cmdResult>>
    /\ UNCHANGED authVarsButPc
    /\ UNCHANGED <<uploadVars, sliceVars, walkVars, batchVars>>

NextMain ==
    \/ Next
    \/ MainDispatch
    \/ MainAuthorizationFailed
    \/ NextCommand

SpecMain == Init /\ [][NextMain]_vars

----------------------------------------------------------------------------
(* Properties *)

\* the four token fields of the client
Tokens(cl) == <<cl.accessToken, cl.refreshToken, cl.expiresIn, cl.uid>>

\* the record of the client as a token file holds it
FileOf(cl) ==
    [kind |-> "json", access_token |-> cl.accessToken,
     refresh_token |-> cl.refreshToken, expires_in |-> cl.expiresIn,
     uid |-> cl.uid, created_at |-> cl.tokenCreatedAt]

\* the record cl is, at clock t, neither expired nor expiring within 48 hours
ValidAt(cl, t) ==
    /\ cl.tokenCreatedAt # 0
    /\ cl.expiresIn # 0
    /\ cl.tokenCreatedAt + cl.expiresIn >= t + 48 * 3600

\* the thread of Authorize did e
Did(e) == \E i \in 1..Len(events) : events[i] = e

\* how often the thread of Authorize did e
Count(e) == Cardinality({i \in 1..Len(events) : events[i] = e})

C2_PollEndsAtSessionExpiry ==
    (deviceResp.kind = "ok" /\ ppc \notin {"idle", "start"} /\ allPending) =>
        /\ pollReqs <= (deviceResp.ExpiresIn \div deviceResp.Interval) + 1
        /\ (ppc # "done" =>
                now <= pollStart + deviceResp.ExpiresIn + deviceResp.Interval)

\* C3: when the deadline of the caller's context elapses while the poll is
\* in progress, Authorize returns the cancellation error, and once it has
\* returned it the token file is as it was when the device-code
\* authorization began: that attempt has not written it, neither before nor
\* after the return.
C3_CancelledAuthorizeWritesNoTokenFile ==
    /\ [](authResult = "cancelled" =>
            (tokenFile = fileAtDeviceAuth /\ ~Did("device_write")))
    /\ [][(pc = "select" /\ ctxDone /\ tokenChan = <<>> /\ errChan = <<>>
           /\ pc' = "done") => authResult' = "cancelled"]_vars

\* Authorize returned the cancellation error and the abandoned poll obtained
\* a token afterwards
C3_Witness ==
    /\ authResult = "cancelled"
    /\ polledAfterReturn
    /\ tokenChan # <<>>

\* C4, as stated: after Authorize has returned the cancellation error no
\* further token poll request is issued.
C4_NoPollAfterCancel ==
    authResult = "cancelled" => ~polledAfterReturn

C6_RefreshErrorLeavesMemory ==
    pc = "remove" => Tokens(c) = Tokens(refreshPre)

\* C7: after RefreshToken or a device-code authorization returned success
\* the token file holds one record, the client's (access token, refresh
\* token, expires_in, account id, created_at), in place of the record it
\* held before.
C7_SuccessPersistsTheRecordInMemory ==
    (authResult = "ok" /\ path \in {"refresh", "device"}) =>
        /\ tokenFile = FileOf(c)
        /\ c.tokenCreatedAt = now
        /\ (loaded.ok => tokenFile # FileOf(loaded.c))

\* a refresh succeeded on a stored record
C7_Witness ==
    /\ authResult = "ok"
    /\ path = "refresh"
    /\ loaded.ok
    /\ c.accessToken = "at_new"

\* C8: for a loaded record with non-zero created_at and non-zero expires_in,
\* IsTokenExpired is true when created_at + expires_in lies in the past,
\* true when it lies less than 48 hours after now, and false when it lies
\* more than 48 hours after now.
C8_ExpiredWithin48Hours ==
    (loaded.ok /\ loaded.c.tokenCreatedAt # 0 /\ loaded.c.expiresIn # 0) =>
        LET expiry == loaded.c.tokenCreatedAt + loaded.c.expiresIn
        IN  /\ (expiry < loaded.at => loaded.expired)
            /\ (expiry < loaded.at + 48 * 3600 => loaded.expired)
            /\ (expiry > loaded.at + 48 * 3600 => ~loaded.expired)

\* a record expiring one second short of 48 hours from now was found expired
C8_Witness ==
    /\ loaded.ok
    /\ loaded.c.tokenCreatedAt # 0
    /\ loaded.c.tokenCreatedAt + loaded.c.expiresIn = loaded.at + 48 * 3600 - 1
    /\ loaded.expired

\* C9: IsTokenExpired is true for every record whose created_at is the zero
\* time or whose expires_in is 0, whatever the other field and the clock
\* are, and Authorize does not return on such a stored record before it has
\* called RefreshToken.
C9_ZeroFieldsAreExpired ==
    (loaded.ok /\ (loaded.c.tokenCreatedAt = 0 \/ loaded.c.expiresIn = 0)) =>
        /\ loaded.expired
        /\ path # "stored"
        /\ (pc \notin {"start", "refresh"} => Did("refresh_call"))
        /\ (\A i \in 1..Len(events) :
                events[i] = "return" =>
                    \E j \in 1..(i - 1) : events[j] = "refresh_call")

\* a record without expires_in whose created_at lies ahead of the clock was
\* found expired and refreshed
C9_Witness ==
    /\ loaded.ok
    /\ loaded.c.expiresIn = 0
    /\ loaded.c.tokenCreatedAt > loaded.at + 48 * 3600
    /\ authResult = "ok"
    /\ path = "refresh"

\* what Authorize does on a loaded record that is valid: it returns success
\* without a request and without writing the token file
ValidRecordUsedAsIs ==
    (loaded.ok /\ ValidAt(loaded.c, loaded.at)) =>
        /\ authResult = "ok"
        /\ events = <<"stat", "read", "return">>
        /\ tokenFile = FileOf(loaded.c)
        /\ pollReqs = 0

\* a device-code request comes after the call of RefreshToken and after its
\* request
DeviceCodeAfterRefresh ==
    \A j \in 1..Len(events) : events[j] = "devcode_req" =>
        /\ \E i \in 1..(j - 1) : events[i] = "refresh_call"
        /\ \A i \in 1..Len(events) : events[i] = "refresh_req" => i < j

\* C10, as stated: Authorize on a loadable stored record issues a refresh
\* request if and only if the record is expired or expiring soon: with a
\* valid record it returns success without a request and without writing the
\* token file; otherwise it issues exactly one refresh request before any
\* device-code request.
C10_RefreshRequestIffExpiring ==
    loaded.ok =>
        /\ ValidRecordUsedAsIs
        /\ (Did("refresh_req") => ~ValidAt(loaded.c, loaded.at))
        /\ ((~ValidAt(loaded.c, loaded.at) /\ pc # "refresh") =>
                (Count("refresh_req") = 1 /\ DeviceCodeAfterRefresh))

\* C10, amended: with a valid record Authorize returns success without a
\* request and without writing the token file; otherwise it calls
\* RefreshToken once before any device-code request, which issues exactly
\* one refresh request when the stored refresh token is non-empty and none
\* when it is empty.
C10_RefreshRequestIffExpiringWithRefreshToken ==
    loaded.ok =>
        /\ ValidRecordUsedAsIs
        /\ (Did("refresh_req") => ~ValidAt(loaded.c, loaded.at))
        /\ ((~ValidAt(loaded.c, loaded.at) /\ pc # "refresh") =>
                /\ Count("refresh_call") = 1
                /\ Count("refresh_req") =
                       (IF loaded.c.refreshToken # "" THEN 1 ELSE 0)
                /\ DeviceCodeAfterRefresh)

\* an expired record was refreshed with one request, the refresh failed and
\* the device-code request followed
C10_Witness ==
    /\ loaded.ok
    /\ ~ValidAt(loaded.c, loaded.at)
    /\ Count("refresh_req") = 1
    /\ Did("devcode_req")

C12_NetworkErrorIsRetried ==
    lastPoll = "neterr" =>
        (ppc = "sleep" /\ errChan = <<>>
         /\ timeout = pollStart + DefaultExpiresIn)

\* a write of the token file by RefreshToken or by the device-code
\* authorization, at position i of the events
IsWrite(i) == events[i] \in {"refresh_write", "device_write"}

\* C13, as stated: in one process invocation of any command, the command ar
\* included, the token file is read at most once, and it is written once
\* for each successful refresh or device-code authorization.
C13_TokenFileReadAtMostOnce ==
    /\ Count("read") <= 1
    /\ \A i \in 1..Len(events) : events[i] = "refresh_ok" =>
          (i > 1 /\ events[i - 1] = "refresh_write"
           /\ (i > 2 => ~IsWrite(i - 2)))
    /\ Count("device_write") <= 1
    /\ (pollToken # EmptyTokenResponse /\ authResult = "ok" =>
          Count("device_write") = 1)

\* some os.WriteFile of the token file has failed
WriteFailed ==
    \/ authResult = "err_save"
    \/ \E i \in 1..(Len(events) - 1) :
          events[i] = "refresh_write" /\ events[i + 1] = "refresh_err"

\* C14, as stated: when writing the token file fails, the failure is
\* returned to the caller of Authorize as an error and the token file is
\* not written a second time in that invocation, after a device-code
\* exchange and after a refresh alike.
C14_WriteFailureIsReturnedNotRetried ==
    WriteFailed =>
        /\ Count("refresh_write") + Count("device_write") = 1
        /\ (pc = "done" => authResult = "err_save")
        /\ ~Did("devcode_req")

----------------------------------------------------------------------------
(* Properties of UploadFile *)

\* request k of the upload has been answered
Answered(k) == k <= Len(responses)

\* the service answered the precreate request with status 200 and a body
\* that decodes
PrecreateDecoded ==
    /\ Answered(1)
    /\ responses[1].kind = "http"
    /\ responses[1].status = 200

\* the answer means the transfer failed: request error, unreadable
\* response, or a status other than 200
TransferFailed(resp) ==
    \/ resp.kind \in {"neterr", "unreadable"}
    \/ resp.kind = "http" /\ resp.status # 200

IsSliceRequest(r) == r.kind = "slice"

\* the slice requests issued so far, in order
SliceRequests == SelectSeq(requests, IsSliceRequest)

\* C15: when the precreate answer has errno 0 and return_type 2 (no upload
\* needed), UploadFile has returned success and the precreate request is
\* the only request it issued: no slice request and no create request.
C15_NoUploadNeededIsOnePrecreate ==
    (/\ PrecreateDecoded
     /\ responses[1].Errno = 0
     /\ responses[1].ReturnType = 2) =>
        /\ upc = "done"
        /\ uploadResult = UploadOk
        /\ Len(requests) = 1
        /\ requests[1].kind = "precreate"

\* a file of two slices or more was not uploaded because the service
\* answered that no upload is needed
C15_Witness ==
    /\ PrecreateDecoded
    /\ responses[1].Errno = 0
    /\ responses[1].ReturnType = 2
    /\ Len(requests[1].block_list.items) >= 2
    /\ uploadResult = UploadOk

\* the local file is a readable file of zero bytes, the client has a token
\* and the remote path is absolute
EmptyFileUpload ==
    /\ localFile.kind = "file"
    /\ localFile.bytes = <<>>
    /\ c.accessToken # ""
    /\ Len(remoteFilePath) >= 1
    /\ remoteFilePath[1] = "/"

\* C16: for a local file of zero bytes the slice hashes are the empty list
\* and computing them does not fail, so the precreate request goes out with
\* size 0 and no hash; no slice request is ever issued, whatever the
\* precreate answer; when the answer demands the upload, the next request
\* is the create request, and success needs its errno 0.
C16_EmptyFileHasNoSliceTransfer ==
    /\ [](EmptyFileUpload /\ upc # "start" =>
            /\ Len(requests) >= 1
            /\ requests[1].kind = "precreate"
            /\ requests[1].size = 0
            /\ requests[1].block_list.items = <<>>
            /\ \A k \in 1..Len(requests) : requests[k].kind # "slice"
            /\ (uploadResult.kind = "err" => uploadResult.part = -1)
            /\ (uploadResult = UploadOk =>
                  \/ responses[1].ReturnType = 2
                  \/ /\ Len(responses) = 2
                     /\ requests[2].kind = "create"
                     /\ responses[2].kind = "http"
                     /\ responses[2].Errno = 0))
    /\ [][(EmptyFileUpload /\ upc = "slice") =>
            (upc' = "create" /\ Len(requests') = 2)]_vars

\* a file of zero bytes was uploaded with a precreate and a create request
C16_Witness ==
    /\ EmptyFileUpload
    /\ uploadResult = UploadOk
    /\ Len(requests) = 2
    /\ requests[2].kind = "create"

\* C17: when the transfer of slice i has failed (request error, unreadable
\* response or status other than 200), UploadFile has returned an error
\* naming i, the failed request is the last request of the upload (no
\* retry of i, no slice after i, no create request), and i was not
\* requested before.
C17_FailedSliceAbortsUpload ==
    \A k \in 1..Len(responses) :
        (requests[k].kind = "slice" /\ TransferFailed(responses[k])) =>
            /\ upc = "done"
            /\ uploadResult.kind = "err"
            /\ uploadResult.part = requests[k].slice
            /\ Len(requests) = k
            /\ \A j \in 1..(k - 1) :
                  requests[j].kind = "slice" =>
                      requests[j].slice # requests[k].slice

\* the transfer of the first of two or more slices failed with a status
\* other than 200
C17_Witness ==
    /\ Len(sliceMD5s) >= 2
    /\ Len(responses) = 2
    /\ requests[2].kind = "slice"
    /\ requests[2].slice = 0
    /\ responses[2].kind = "http"
    /\ responses[2].status # 200

\* C18: the slice requests carry the part numbers 0, 1, 2, ... in this
\* order, each once and at most one for each slice hash; a request is
\* issued only when every earlier request has been answered, so no two
\* requests of an upload are in flight.
C18_SlicesOneAtATimeInOrder ==
    /\ Len(requests) - Len(responses) \in {0, 1}
    /\ \A k \in 1..Len(SliceRequests) :
          /\ SliceRequests[k].slice = k - 1
          /\ SliceRequests[k].partseq = k - 1
    /\ Len(SliceRequests) <= Len(sliceMD5s)
    /\ (upc = "slice_wait" <=>
          (Len(requests) > Len(responses)
           /\ requests[Len(requests)].kind = "slice"))

\* C19: every slice request and the create request carry the uploadid of
\* the precreate answer, which is not empty; when the precreate answer
\* demands the upload (errno 0, return_type not 2) with an empty uploadid,
\* UploadFile has returned an error and issued no further request.
C19_UploadIdEchoed ==
    /\ \A k \in 1..Len(requests) :
          requests[k].kind \in {"slice", "create"} =>
              /\ PrecreateDecoded
              /\ requests[k].uploadid = responses[1].UploadID
              /\ requests[k].uploadid # <<>>
    /\ (/\ PrecreateDecoded
        /\ responses[1].Errno = 0
        /\ responses[1].ReturnType # 2
        /\ responses[1].UploadID = <<>>) =>
            /\ upc = "done"
            /\ uploadResult.kind = "err"
            /\ Len(requests) = 1

\* the upload succeeded, by the answer that no upload is needed or by the
\* create answer with errno 0
SuccessAfterFinalize ==
    \/ /\ PrecreateDecoded
       /\ responses[1].ReturnType = 2
    \/ /\ Len(responses) = Len(requests)
       /\ requests[Len(requests)].kind = "create"
       /\ responses[Len(responses)].kind = "http"
       /\ responses[Len(responses)].status = 200
       /\ responses[Len(responses)].Errno = 0

NonZeroErrno(k) ==
    /\ responses[k].kind = "http"
    /\ responses[k].status = 200
    /\ IF requests[k].kind = "slice"
       THEN responses[k].errno # 0
       ELSE responses[k].Errno # 0

\* C21, as stated: an answer with a non-zero errno to the precreate request,
\* to a slice request or to the create request is fatal: UploadFile has
\* returned an error and the answered request is the last request of the
\* upload.
C21_NonZeroErrnoIsFatal ==
    \A k \in 1..Len(responses) :
        NonZeroErrno(k) =>
            /\ upc = "done"
            /\ uploadResult.kind = "err"
            /\ Len(requests) = k

----------------------------------------------------------------------------
(* Properties of CalculateSliceMD5 *)

\* the number of slices of a file of n bytes: ceil(n / sliceSize)
SliceCount(n, sliceSize) == (n + sliceSize - 1) \div sliceSize

\* the hashes of the byte ranges [i*S, min((i+1)*S, N)), i from 0
ExpectedSliceHashes(bytes, sliceSize) ==
    [k \in 1..SliceCount(Len(bytes), sliceSize) |->
        [md5 |-> SubSeq(bytes, (k - 1) * sliceSize + 1,
                        IF k * sliceSize < Len(bytes) THEN k * sliceSize
                        ELSE Len(bytes))]]

\* no read of the run failed
NoReadError(run) == \A k \in 1..Len(run.script) : run.script[k] # "err"

\* C22, as stated: for a file of N bytes and slice size S, a call of
\* CalculateSliceMD5 in which no read fails returns ceil(N/S) hashes, hash
\* i the hash of the bytes [i*S, min((i+1)*S, N)), whatever number of bytes
\* each read returns.
C22_SlicesCoverTheFile ==
    \A k \in 1..Len(hashRuns) :
        (localFile.kind = "file" /\ NoReadError(hashRuns[k])) =>
            /\ ~hashRuns[k].err
            /\ hashRuns[k].list = ExpectedSliceHashes(localFile.bytes, SliceSize)

\* C23, as stated: two calls of CalculateSliceMD5 on the same file contents
\* with the same slice size, no read failing in either, return the same
\* list: the same length and the same hash at every index.
C23_SameFileSameHashes ==
    \A j, k \in 1..Len(hashRuns) :
        (/\ ~hashRuns[j].err /\ NoReadError(hashRuns[j])
         /\ ~hashRuns[k].err /\ NoReadError(hashRuns[k])) =>
            hashRuns[j].list = hashRuns[k].list

----------------------------------------------------------------------------
(* Properties of Walk *)

RECURSIVE PreOrder(_, _, _)
\* the files below the listed ones in depth-first pre-order: each file as
\* listed, a directory followed by what is below it, nothing below a
\* directory whose listing fails
PreOrder(t, failed, files) ==
    IF files = <<>> THEN <<>>
    ELSE LET file == Head(files)
             below == IF file.IsDir = 1 /\ file.Path \notin failed
                      THEN PreOrder(t, failed, t.list[file.Path])
                      ELSE <<>>
         IN  <<file>> \o below \o PreOrder(t, failed, Tail(files))

\* what a walk of the tree emits when the listings of failed fail
WalkOrder(t, failed) ==
    IF t.root \in failed THEN <<>> ELSE PreOrder(t, failed, t.list[t.root])

\* s is the beginning of t
IsPrefix(s, t) == Len(s) <= Len(t) /\ s = SubSeq(t, 1, Len(s))

\* no listing of the walk fails
NoListingError == c.accessToken # "" /\ failing = {}

\* the tree / -> [/a, /b -> [/b/c]]
IsExampleTree ==
    tree.list = ("/" :> <<FileEntry("/a"), DirEntry("/b")>>
                 @@ "/b" :> <<FileEntry("/b/c")>>)

\* C24: Walk emits the entries in depth-first pre-order, every entry of a
\* directory right after the directory and before its later siblings: on
\* the tree / -> [/a, /b -> [/b/c]] the order is /a, /b, /b/c; with no
\* listing error, the closed channel has carried every descendant of the
\* root exactly once
C24_DepthFirstPreOrder ==
    NoListingError =>
        /\ IsPrefix(received, WalkOrder(tree, {}))
        /\ fileChanClosed => received = WalkOrder(tree, {})
        /\ fileChanClosed /\ IsExampleTree =>
               received = <<FileEntry("/a"), DirEntry("/b"), FileEntry("/b/c")>>
        /\ \A i, j \in 1..Len(received) :
               received[i].Path = received[j].Path => i = j

\* the example tree has been walked to the end without a listing error
C24_Witness ==
    /\ NoListingError
    /\ IsExampleTree
    /\ fileChanClosed
    /\ Len(received) = 3

\* the directories whose listing fails in this walk
FailedListings == IF c.accessToken = "" THEN DOMAIN tree.list ELSE failing

\* the directories the walk comes to and whose listing fails
ReachedFailedListings ==
    {d \in FailedListings :
        \/ d = tree.root
        \/ \E i \in 1..Len(WalkOrder(tree, FailedListings)) :
               WalkOrder(tree, FailedListings)[i].Path = d}

\* the number of errors put on the error channel for the directory d
ErrorsEmittedFor(d) ==
    Cardinality({i \in 1..Len(walkLog) :
                    walkLog[i].kind = "err" /\ walkLog[i].path = d})

\* C25: when the listing of a directory fails, at any depth, exactly one
\* error is put on the error channel for that directory and no entry below
\* it is emitted, while every sibling branch is still walked and its
\* entries emitted, and the entries emitted before the failure stay emitted
C25_FailedListingStopsOnlyItsBranch ==
    /\ [](/\ IsPrefix(received, WalkOrder(tree, FailedListings))
          /\ \A d \in DOMAIN tree.list :
                 ErrorsEmittedFor(d) <= IF d \in ReachedFailedListings
                                        THEN 1 ELSE 0)
    /\ [][IsPrefix(received, received')]_vars
    /\ wpc # "start" ~>
           (/\ received = WalkOrder(tree, FailedListings)
            /\ \A d \in ReachedFailedListings : ErrorsEmittedFor(d) = 1)

\* the number of times the entry channel has been closed
Closes ==
    Cardinality({i \in 1..Len(walkLog) : walkLog[i].kind = "close"})

WalkCount(kind) ==
    Cardinality({i \in 1..Len(walkLog) : walkLog[i].kind = kind})

\* C27: the walker waits at the send of an entry until the consumer has
\* received it: one emitted entry at most is not yet received, and between
\* the send of an entry and its reception the walker does nothing, no
\* listing call in particular
C27_WalkerWaitsForTheConsumer ==
    /\ Len(fileChan) <= 1
    /\ WalkCount("send") - WalkCount("recv") = Len(fileChan)
    /\ fileChan # <<>> => wpc = "sending"
    /\ \A i \in 1..Len(walkLog) :
           walkLog[i].kind = "send" /\ i < Len(walkLog) =>
               /\ walkLog[i + 1].kind = "recv"
               /\ walkLog[i + 1].path = walkLog[i].path

\* a directory has been sent and not yet received, after an earlier entry:
\* the listing of the directory has to wait
C27_Witness ==
    /\ fileChan # <<>>
    /\ Head(fileChan).IsDir = 1
    /\ received # <<>>
    /\ walkLog[Len(walkLog)].kind = "send"

\* C35: once called, Walk closes the entry channel in the end, for every
\* tree and every set of failing listings, two or more included, when the
\* consumer goes on receiving from the entry channel until it is closed,
\* even if it reads the error channel only after that
C35_WalkCloses == wpc # "start" ~> fileChanClosed

----------------------------------------------------------------------------
(* Properties of RenameFiles, MoveFiles, CopyFiles *)

\* the answer has been decoded and its top-level errno is 0
ItemsAnswered ==
    /\ batchPc = "done"
    /\ batchResponse.kind = "http"
    /\ batchResponse.status = 200
    /\ batchResponse.Errno = 0

\* the indexes of the request items for which the answer has an errno
\* other than 0
FailedRequestItems ==
    {i \in 1..Len(batchRequests) :
        i <= Len(batchResponse.Info) /\ batchResponse.Info[i].Errno # 0}

\* the paths of the request items of a set of indexes, in request order
RECURSIVE PathsOf(_, _)
PathsOf(indexes, i) ==
    IF i > Len(batchRequests) THEN <<>>
    ELSE (IF i \in indexes THEN <<batchRequests[i].Path>> ELSE <<>>)
         \o PathsOf(indexes, i + 1)

\* C28: after an answer with top-level errno 0, RenameFiles, MoveFiles and
\* CopyFiles return one error that names exactly the request items whose
\* item of the answer has an errno other than 0, each by its request path,
\* and return success when no item failed
C28_FailedItemsAreReported ==
    ItemsAnswered =>
        IF \E i \in 1..Len(batchResponse.Info) :
               batchResponse.Info[i].Errno # 0
        THEN /\ batchResult.kind = "err"
             /\ batchResult.failed = PathsOf(FailedRequestItems, 1)
        ELSE batchResult = BatchOk

\* C39: for every decoded answer with top-level errno 0, whatever the length
\* and the order of its item list against the request list, the check of
\* the items of RenameFiles, MoveFiles and CopyFiles returns success or an
\* error: it never ends in a read past the end of the request list
C39_ItemCheckAlwaysReturns ==
    ItemsAnswered => batchResult.kind \in {"ok", "err"}

\* the answer has more items than the request, and the check of the items
\* has read the request list out of range
C39_ReadPastTheRequestList ==
    /\ ItemsAnswered
    /\ Len(batchResponse.Info) > Len(batchRequests)
    /\ batchResult = BatchPanic

\* the item list of the answer is no longer than the request list
C39_AnswerWithinTheRequestList ==
    ItemsAnswered /\ Len(batchResponse.Info) <= Len(batchRequests)
        => batchResult.kind \in {"ok", "err"}

----------------------------------------------------------------------------
(* Properties of the download and info commands *)

\* C29: no error is taken for a non-error but the two keep-polling answers
\* of the poll loop: when a step of a command has returned an error, the
\* command ends with an error and a non-zero exit code
C29_EveryErrorEndsTheCommand ==
    cpc = "done" /\ stepErrors # <<>> =>
        cmdResult.kind = "err" /\ exitCode # 0

----------------------------------------------------------------------------
(* Properties of the two HTTP clients *)

\* the request moves the contents of a file: a slice of an upload or a
\* download
IsDataTransfer(req) == req.kind \in {"slice", "download"}

\* the request is under the deadline of its kind
UnderItsDeadline(req) ==
    TimeoutOf(req.client) = IF IsDataTransfer(req)
                            THEN DownloadClientTimeout
                            ELSE ClientTimeout

\* C30: every data transfer, slice of an upload or download, is sent under
\* the long deadline and every other request under the short one; no slice
\* is sent under the short deadline
C30_TransfersUnderTheLongDeadline ==
    /\ \A i \in 1..Len(requests) : UnderItsDeadline(requests[i])
    /\ \A i \in 1..Len(cmdSent) : UnderItsDeadline(cmdSent[i])
    /\ \A i \in 1..Len(batchSent) : UnderItsDeadline(batchSent[i])

----------------------------------------------------------------------------
(* Properties of the progress of an upload *)

\* the slice loop has gone through every entry of the hash list
AfterLastSlice ==
    /\ upc \in {"slice", "create"}
    /\ partseq = Len(sliceMD5s)

\* the step completes a slice: the loop goes on to the next index
SliceCompleted == partseq' = partseq + 1

\* C31: the bytes-transferred value of an upload starts at 0, grows with
\* each completed slice by the length of that slice (strictly for a slice
\* that is not empty), never exceeds the total size, and equals the total
\* size after the last slice; it grows only when the transfer of a slice
\* succeeded
C31_ProgressCountsTheTransferredBytes ==
    /\ [](upc \in {"start", "precreate"} => uploadedBytes = 0)
    /\ [](uploadedBytes <= fileSize)
    /\ [](AfterLastSlice => uploadedBytes = fileSize)
    /\ [][SliceCompleted =>
            /\ uploadedBytes' =
                   uploadedBytes + Len(requests[Len(requests)].data)
            /\ requests[Len(requests)].kind = "slice"
            /\ ~TransferFailed(responses'[Len(responses')])]_vars
    /\ [][uploadedBytes' # uploadedBytes => SliceCompleted]_vars

----------------------------------------------------------------------------
(* Properties of UploadFile and its local file *)

RECURSIVE HashedLength(_)
\* the number of bytes the hashes of the list were taken of
HashedLength(md5List) ==
    IF md5List = <<>> THEN 0
    ELSE Len(Head(md5List).md5) + HashedLength(Tail(md5List))

\* the local file could not be opened, or it was not read to its end: the
\* hashes that UploadFile holds do not reach the end of the file
SourceNotRead ==
    \/ localFile.kind \in {"missing", "dir", "unreadable"}
    \/ /\ localFile.kind = "file"
       /\ HashedLength(sliceMD5s) < Len(localFile.bytes)

\* C32: when the local file of an upload is missing, a directory or cannot
\* be opened or read, UploadFile returns an error and has issued no request
C32_UnreadableSourceFailsBeforeAnyRequest ==
    (upc # "start" /\ SourceNotRead) =>
        /\ upc = "done"
        /\ uploadResult.kind = "err"
        /\ requests = <<>>

----------------------------------------------------------------------------
(* Properties of main *)

\* a request of a command to the storage service has been issued
StorageRequestIssued ==
    cmdSent # <<>> \/ requests # <<>> \/ batchSent # <<>>

\* Authorize has returned an error to main
AuthorizeFailed ==
    pc \in {"done", "exit"} /\ authResult \notin {"none", "ok"}

\* C33: for a command other than version and help, no request to the
\* storage service is issued before Authorize has returned success; when
\* Authorize fails, no request is issued at all, the command is not started
\* and the process exits with a code other than 0
C33_NoRequestBeforeAuthorize ==
    /\ StorageRequestIssued => pc = "command" /\ authResult = "ok"
    /\ cpc # "idle" => authResult = "ok"
    /\ AuthorizeFailed => ~StorageRequestIssued /\ cpc = "idle"
    /\ AuthorizeFailed /\ pc = "exit" => exitCode = 1
    /\ exitCode = 0 => authResult = "ok"

\* the download request of a command that main started after Authorize
\* returned success has been issued
C33_Witness ==
    /\ authResult = "ok"
    /\ pc = "command"
    /\ \E i \in 1..Len(cmdSent) : cmdSent[i].kind = "download"

\* Authorize failed and the process has exited with code 1
C33_WitnessFailed ==
    /\ AuthorizeFailed
    /\ pc = "exit"
    /\ exitCode = 1

----------------------------------------------------------------------------
(* Properties of the paths of Authorize *)

\* a refresh attempt had failed before each device-code request
RefreshFailedBeforeDeviceCode ==
    \A j \in 1..Len(events) : events[j] = "devcode_req" =>
        \E i \in 1..(j - 1) : events[i] = "refresh_err"

\* C34: when Authorize starts with no token file, it issues a device-code
\* request and no refresh request; when it starts with a token file that
\* can be loaded, it issues a device-code request only after a refresh
\* attempt that failed.  The formula is evaluated in the first state, where
\* tokenFile is the file that Authorize finds.
C34_DeviceCodeOnlyWithoutUsableRecord ==
    /\ tokenFile = NoFile =>
           [](/\ ~Did("refresh_call")
              /\ ~Did("refresh_req")
              /\ authResult # "none" => Did("devcode_req"))
    /\ tokenFile.kind = "json" => []RefreshFailedBeforeDeviceCode

\* the device-code request has been issued with no token file read and no
\* refresh attempted
C34_Witness ==
    /\ Did("devcode_req")
    /\ ~Did("read")
    /\ ~Did("refresh_call")
    /\ fileAtDeviceAuth = NoFile

\* C36: for every slice index i that UploadFile transfers, the bytes sent
\* are the bytes whose hash is entry i of the hash list of the precreate
\* and create requests: the range read for the transfer is the range that
\* was hashed as slice i (the local file is the same throughout)
C36_SentBytesAreTheHashedBytes ==
    \A k \in 1..Len(requests) :
        requests[k].kind = "slice" =>
            /\ requests[k].slice + 1 <= Len(sliceMD5s)
            /\ MD5(requests[k].data) = sliceMD5s[requests[k].slice + 1]
            /\ requests[1].block_list.items[requests[k].slice + 1]
                   = MD5(requests[k].data)

\* ---------------------------------------------------------------------------
\* Properties of the abandoned poll
\* ---------------------------------------------------------------------------

\* the goroutine of PollForToken is at a request whose answer it assigns to
\* the token fields of the client (utils.go:246-249)
PollMayWrite == ppc = "check" /\ ~(now > timeout)

\* the thread of Authorize is at the tokenChan case of the select, which
\* assigns the token fields of the client (utils.go:387-390)
AuthorizeMayWrite == pc = "select" /\ tokenChan # <<>>

\* C37: once Authorize has returned the cancellation error no step changes
\* the access token, refresh token, expires_in or account id of the client,
\* and in no state of the device-code authorization are the goroutine of
\* the poll and the thread of Authorize both at an assignment to them
C37_AbandonedPollLeavesTheClient ==
    /\ [][authResult = "cancelled" => Tokens(c') = Tokens(c)]_vars
    /\ [](~(PollMayWrite /\ AuthorizeMayWrite))

\* the poll that Authorize abandoned has assigned the tokens it obtained
C37_PollWroteAfterCancel ==
    /\ authResult = "cancelled"
    /\ polledAfterReturn
    /\ c.accessToken # ""

\* ---------------------------------------------------------------------------
\* Properties of the operations of a client without an access token
\* ---------------------------------------------------------------------------

\* no request has gone out: none of UploadFile, of the three operations on
\* lists of files, of the commands and single requests, and no call of
\* ListFiles has reached its request
NoRequestIssued ==
    /\ requests = <<>>
    /\ batchSent = <<>>
    /\ cmdSent = <<>>
    /\ \A i \in 1..Len(walkLog) : ~walkLog[i].request

\* an operation that has been called has returned, and returned an error;
\* the only steps that failed are the functions of the client themselves
\* (not os.MkdirAll, os.Create, io.CopyBuffer)
CalledOperationFailed ==
    /\ upc \notin {"idle", "start"} =>
           upc = "done" /\ uploadResult.kind = "err"
    /\ batchPc \notin {"idle", "start"} =>
           batchPc = "done" /\ batchResult.kind = "err"
    /\ cpc \notin {"idle", "start"} =>
           /\ cpc = "done"
           /\ cmdResult.kind = "err"
           /\ \A i \in 1..Len(stepErrors) :
                  stepErrors[i] \in {"DownloadFileToPath", "GetDetailedFileInfo",
                                     "GetFileInfo", "CreateDir", "RemoveFiles",
                                     "GetDiskInfo"}
    /\ \A i \in 1..Len(walkLog) :
           walkLog[i].kind = "list" => walkLog[i].err # ""

\* C38: with an empty access token every operation of the client (list,
\* file info, download, upload, mkdir, remove, move, copy, rename, disk
\* info) that is called returns an error, no request has been issued, and
\* no step changes the local file of the download or the upload
C38_NoTokenNoRequestNoChange ==
    /\ [](c.accessToken = "" => NoRequestIssued /\ CalledOperationFailed)
    /\ [][c.accessToken = "" =>
              localPath' = localPath /\ localFile' = localFile]_vars

\* a client without an access token has been asked to download onto an
\* existing local file and has returned its error
C38_Witness ==
    /\ c.accessToken = ""
    /\ cmd = "download"
    /\ cpc = "done"
    /\ localPath = "old"
    /\ cmdResult.kind = "err"

\* ---------------------------------------------------------------------------
\* Properties of DownloadFileToPath and its local file
\* ---------------------------------------------------------------------------

\* the step in which DownloadFileToPath returns because the download
\* request failed or was answered with a status other than 200
DownloadRequestFailed ==
    /\ cpc = "download"
    /\ cmdResult'.kind = "err"
    /\ cmdResult'.msg \in {"failed to download file",
                           "download request failed with status"}

\* that step leaves the local file as it was, absent or with its old content
C40_FailedRequestLeavesTheLocalFile ==
    [][DownloadRequestFailed => localPath' = localPath]_vars

\* DownloadFileToPath has returned the error of the copy of the body
CopyFailed ==
    /\ cpc = "done"
    /\ cmdResult.kind = "err"
    /\ cmdResult.msg = "failed to write file content"

\* C40: DownloadFileToPath leaves no partial file: the step that returns
\* after a failed download request or a status other than 200 has neither
\* created nor truncated the local file, and when the copy of the body has
\* failed, the local file is gone when the error is returned
C40_NoPartialFile ==
    /\ [][DownloadRequestFailed => localPath' = localPath]_vars
    /\ [](CopyFailed => localPath = "absent")

\* the copy has failed and the local file is still there, cut short
C40_PartialFileLeft == CopyFailed /\ localPath \in {"empty", "partial"}

====
